---- MODULE Spec2Model ----
(***************************************************************************)
(* Model of the trading platform's decision core:                          *)
(*   - RiskManager        (packages/core/risk/risk_manager.py)             *)
(*   - TradingEngine      (apps/engine/main.py)                            *)
(*   - AlpacaAdapter      (packages/core/broker/alpaca_adapter.py)         *)
(*   - ProductionController (packages/core/controls/production_controller) *)
(* Money amounts are integers (abstract currency units); percentages are   *)
(* compared by cross-multiplication so no rounding is introduced.          *)
(***************************************************************************)
EXTENDS Integers, Sequences, FiniteSets, TLC

(***************************************************************************)
(* Bounds of the model                                                     *)
(***************************************************************************)
\* wall-clock minutes explored inside one hour (and again one hour later)
MaxMinute == 1
\* approvals the model follows inside one wall-clock minute
MaxApprovals == 3
\* entries kept in RiskManager.violations
MaxViolations == 2
\* signals the engine is followed through
MaxSignals == 2
\* signals in flight at the same time
MaxTasks == 2
\* commands waiting on the engine:commands channel
MaxChannel == 3
\* entries kept in ProductionController.audit_log
MaxAudit == 1
\* admin commands waiting on the channel at once
MaxPending == 1
\* _auto_resume tasks sleeping at once
MaxTimers == 1
\* the longest ramp-up asked for, in days
MaxRampDays == 1

(***************************************************************************)
(* Program constants                                                       *)
(***************************************************************************)
\* datetime.now().minute ranges over 0..59
MinutesPerHour == 60
MinShadowHours == 24
\* EngineConfig.max_single_order_value
\* broker orders created in one run
MaxBrokerOrders == 3
\* wall-clock instants place_order can read: 0..MaxInstant
MaxInstant == 1
\* trades fed to one aggregator
MaxTrades == 3
\* trade timestamps: 0..MaxTime seconds
MaxTime == 6
\* bar lengths in seconds: 2..MaxTimeframe
MaxTimeframe == 3
\* trades fed to one aggregator when they may arrive out of order
MaxLateTrades == 4
MaxFollowedRampDays == 2
MaxFollowedTimers == 2

MaxSingleOrderValue == 5000
\* BarAggregator.bars: deque(maxlen=1000)
BarsMaxLen == 1000
\* canary orders are capped at 10 shares
CanaryCap == 10
\* the price _place_live_order assumes for an intent without limit price
NoLimitReferencePrice == 999999

\* Python's None for optional values is the empty tuple; a value v is <<v>>.
None == <<>>
Some(v) == <<v>>
IsNone(o) == o = <<>>
Val(o) == o[1]

Symbols == {"AAPL", "SPY"}

\* OrderIntent (packages/core/types); limit_price 0 stands for None
OrderIntent(symbol, side, order_type, qty, limit_price) ==
    [ symbol |-> symbol, side |-> side, order_type |-> order_type,
      qty |-> qty, limit_price |-> limit_price ]

IntentChoices ==
    { OrderIntent("AAPL", "buy",  "limit",  5,   100),
      OrderIntent("AAPL", "buy",  "limit",  500, 100),
      OrderIntent("AAPL", "buy",  "market", 5,   0),
      OrderIntent("SPY",  "sell", "market", 5,   100),
      OrderIntent("SPY",  "buy",  "stop",   5,   100) }

\* Position (packages/core/types), as get_positions builds them
Position(qty, current_price, unrealized_pnl) ==
    [ qty |-> qty, current_price |-> current_price,
      unrealized_pnl |-> unrealized_pnl ]

NoPositions == [s \in {} |-> Position(0, 0, 0)]

PositionChoices ==
    { NoPositions,
      [s \in {"AAPL"} |-> Position(10, 100, -4)] }

PnlChoices == {-4, -2, 0}
WeeklyChoices == {None, Some(-8)}
Times == (0..MaxMinute) \cup {MinutesPerHour}

(***************************************************************************)
(* RiskLimits: two configurations.  A zero weekly_loss_limit or            *)
(* max_single_order_value stands for "not configured" (None is falsy, and  *)
(* the code tests these fields by truthiness).                             *)
(***************************************************************************)
RiskLimits(daily, weekly, single, possize, perminute, dailytrades, isfloat) ==
    [ daily_loss_limit       |-> daily,
      float_limits           |-> isfloat,  \* limits given as float, not Decimal
      weekly_loss_limit      |-> weekly,
      max_single_order_value |-> single,
      max_position_size      |-> possize,
      max_portfolio_heat     |-> 200,      \* basis points (0.02)
      per_trade_stop_pct     |-> 200,      \* basis points (0.02)
      max_orders_per_minute  |-> perminute,
      max_daily_trades       |-> dailytrades,
      margin_call_threshold  |-> 25 ]      \* percent (0.25)

LimitChoices ==
    { RiskLimits(4, 8, 5000, 10000, 2, 3, FALSE),
      RiskLimits(4, 0, 0,    10000, 2, 3, FALSE) }

\* the limits TradingEngine.__init__ builds from EngineConfig (floats; the
\* optional limits stay None, the rate limits keep their defaults)
EngineLimits == RiskLimits(4, 0, 0, 10000, 10, 100, TRUE)

StrategyNames == {"momentum"}
StrategyModes == {"disabled", "shadow", "canary", "enabled"}
SystemStates == {"initializing", "testing", "shadow", "canary", "ramping",
                 "live", "paused", "emergency_stop"}

\* a message on the engine:commands channel
Msg(command, strategy, status, enabled, reason) ==
    [ command |-> command, strategy |-> strategy, status |-> status,
      enabled |-> enabled, reason |-> reason, mode |-> "",
      daily_loss_limit |-> 0, max_position_size |-> 0,
      max_daily_trades |-> 0 ]
Command(command) == Msg(command, "", "", "absent", "")

\* a message whose data json.loads cannot parse
NotJson == Command("{not json")
IsValidJson(message) == message # NotJson

Reasons == { "None", "Daily loss limit exceeded", "Weekly loss limit exceeded",
             "Emergency halt activated" }

(***************************************************************************)
(* State                                                                   *)
(***************************************************************************)
VARIABLES
    risk,          \* the RiskManager object
    now,           \* wall clock, in minutes
    check_result,  \* what the last check_order_intent call returned
    approved_this_minute, \* approvals granted during wall-clock minute `now`
    \* TradingEngine
    trading_enabled,  \* the global gate
    strategies,       \* names of the registered strategies
    strategy_modes,   \* strategy name -> StrategyMode
    positions,        \* the position cache
    tasks,            \* signals in flight: where each one is suspended
    broker_orders,    \* orders submitted through AlpacaAdapter.place_order
    approved,         \* ids of the intents check_order_intent allowed
    next_id,          \* number of intents handed to the engine so far
    shadow_log,       \* ids written by _log_shadow_order
    pending_orders,   \* TradingEngine.pending_orders
    channel,          \* messages published on engine:commands, not yet handled
    last_command,     \* command name the engine handled last
    flattened,        \* close_all_positions + cancel_all_orders were called
    \* ProductionController
    state,            \* SystemState
    audit_log,        \* ProductionController.audit_log
    checklist,        \* LiveTradingChecklist: item -> bool
    resume_timers,    \* _auto_resume tasks created and still sleeping
    ramp_day,         \* the day a running gradual_ramp_up waits for (-1: none)
    shadow_monitor,   \* a _monitor_shadow_performance task was started
    last_call,        \* the controller method called last: input and result
    last_signal,      \* the signal _process_strategy_signal took up last
    alpaca,           \* AlpacaAdapter: pending_orders, the broker's orders and
                      \* what place_order returned last
    aggregator,       \* one BarAggregator: timeframe, bars, current_bar,
                      \* last_bar_time
    feed,             \* the trades handed to add_trade so far
    completed,        \* the bars add_trade returned so far
    listening,        \* the _listen_for_commands loop is still consuming
    monitors,         \* where the shadow and the canary monitor task stand
    stats_writes,     \* the statistics writes so far: <<key, state at the write>>
    ramp,             \* the gradual_ramp_up call started last: its days, the
                      \* days it has slept and whether it has returned
    pauses            \* the sleeping _auto_resume tasks, oldest first: the
                      \* state each pause_trading call found

riskVars == <<risk, now, check_result, approved_this_minute>>
engineVars == <<trading_enabled, strategies, strategy_modes, positions, tasks,
                broker_orders, approved, next_id, shadow_log, pending_orders,
                last_command, flattened, last_signal>>
ctlVars == <<state, audit_log, checklist, resume_timers, ramp_day,
            shadow_monitor, last_call>>
adapterVars == <<alpaca>>
barVars == <<aggregator, feed, completed>>
listenerVars == <<listening>>
monitorVars == <<monitors, stats_writes, ramp>>
pauseVars == <<pauses>>
ioVars == <<adapterVars, barVars, listenerVars, monitorVars, pauseVars>>
vars == <<riskVars, engineVars, channel, ctlVars, ioVars>>

(***************************************************************************)
(* RiskManager                                                             *)
(***************************************************************************)
RiskManagerInit(limits, minute) ==
    [ limits              |-> limits,
      daily_pnl           |-> 0,
      weekly_pnl          |-> 0,
      daily_trades        |-> 0,
      orders_this_minute  |-> 0,
      last_order_minute   |-> minute % MinutesPerHour,
      is_halted           |-> FALSE,
      halt_reason         |-> "None",
      risk_level          |-> "low",
      violations          |-> <<>>,
      position_sectors    |-> <<>> ]

\* _halt_trading(reason)
_halt_trading(rm, reason) ==
    [rm EXCEPT !.is_halted = TRUE,
               !.halt_reason = reason,
               !.risk_level = "critical",
               !.violations = Append(@, reason)]

\* _update_risk_level(): daily_pnl / daily_loss_limit against -0.75/-0.50/-0.25
_update_risk_level(rm) ==
    LET p == rm.daily_pnl
        l == rm.limits.daily_loss_limit
        level == IF l = 0 THEN "low"
                 ELSE IF 4 * p <= -3 * l THEN "critical"
                 ELSE IF 2 * p <= -l THEN "high"
                 ELSE IF 4 * p <= -l THEN "medium"
                 ELSE "low"
    IN [rm EXCEPT !.risk_level = level]

RECURSIVE SumOver(_, _)
SumOver(f, S) ==
    IF S = {} THEN 0
    ELSE LET x == CHOOSE y \in S : TRUE
         IN f[x] + SumOver(f, S \ {x})

Abs(x) == IF x < 0 THEN -x ELSE x

\* _calculate_portfolio_heat(positions), in basis points
_calculate_portfolio_heat(rm, held) ==
    IF DOMAIN held = {} THEN 0
    ELSE LET value == [s \in DOMAIN held |->
                          Abs(held[s].qty * held[s].current_price)]
             riskamt == [s \in DOMAIN held |->
                          value[s] * rm.limits.per_trade_stop_pct]
             total_risk == SumOver(riskamt, DOMAIN held)
             total_value == SumOver(value, DOMAIN held)
         IN IF total_value > 0 THEN total_risk \div total_value ELSE 0

\* _check_correlation(intent, positions)
_check_correlation(rm, intent, held) ==
    IF intent.symbol \in DOMAIN rm.position_sectors
    THEN LET sector == rm.position_sectors[intent.symbol]
             sector_exposure ==
                 Cardinality({s \in DOMAIN rm.position_sectors :
                                 rm.position_sectors[s] = sector
                                 /\ s \in DOMAIN held})
         IN ~(sector_exposure >= 3)
    ELSE TRUE

Outcome(rm, allowed, raised, reason) ==
    [rm |-> rm, is_allowed |-> allowed, raised |-> raised, reason |-> reason]

\* (mutation) the counters are raised before the limits are tested, so a
\* rejected call counts as well
check_rate_counting_first(rm, intent, current_positions, minute) ==
    LET current_minute == minute % MinutesPerHour
        rm1 == IF current_minute # rm.last_order_minute
               THEN [rm EXCEPT !.orders_this_minute = 0,
                               !.last_order_minute = current_minute]
               ELSE rm
        rm2 == [rm1 EXCEPT !.orders_this_minute = @ + 1, !.daily_trades = @ + 1]
    IN IF rm1.orders_this_minute >= rm1.limits.max_orders_per_minute
       THEN Outcome(rm2, FALSE, FALSE, <<"Rate limit">>)
       ELSE IF rm1.daily_trades >= rm1.limits.max_daily_trades
       THEN Outcome(rm2, FALSE, FALSE, <<"Daily trade limit reached">>)
       ELSE Outcome(rm2, TRUE, FALSE, <<"None">>)

\* check_order_intent, the part from the rate limit on (lines 99-125)
check_rate_and_after(rm, intent, current_positions, minute) ==
    LET current_minute == minute % MinutesPerHour
        rm1 == IF current_minute # rm.last_order_minute
               THEN [rm EXCEPT !.orders_this_minute = 0,
                               !.last_order_minute = current_minute]
               ELSE rm
    IN IF rm1.orders_this_minute >= rm1.limits.max_orders_per_minute
       THEN Outcome(rm1, FALSE, FALSE, <<"Rate limit">>)
       ELSE IF rm1.daily_trades >= rm1.limits.max_daily_trades
       THEN Outcome(rm1, FALSE, FALSE, <<"Daily trade limit reached">>)
       ELSE IF ~_check_correlation(rm1, intent, current_positions)
       THEN Outcome(rm1, FALSE, FALSE, <<"Position correlation too high">>)
       ELSE IF _calculate_portfolio_heat(rm1, current_positions)
                  > rm1.limits.max_portfolio_heat
       THEN Outcome(rm1, FALSE, FALSE, <<"Portfolio heat exceeds max">>)
       ELSE Outcome([rm1 EXCEPT !.orders_this_minute = @ + 1,
                                !.daily_trades = @ + 1],
                    TRUE, FALSE, <<"None">>)

\* (mutation) the loss limits reject without halting
check_limits_without_halt(rm, intent, current_positions, minute) ==
    LET order_value == intent.qty * intent.limit_price
    IN IF rm.daily_pnl <= -rm.limits.daily_loss_limit
       THEN Outcome(rm, FALSE, FALSE, <<"Daily loss limit exceeded">>)
       ELSE IF rm.limits.weekly_loss_limit # 0
               /\ rm.weekly_pnl <= -rm.limits.weekly_loss_limit
       THEN Outcome(rm, FALSE, FALSE, <<"Weekly loss limit exceeded">>)
       ELSE IF rm.limits.max_single_order_value # 0
               /\ order_value > rm.limits.max_single_order_value
       THEN Outcome(rm, FALSE, FALSE, <<"Order value exceeds max">>)
       ELSE IF intent.symbol \in DOMAIN current_positions
       THEN Outcome(rm, FALSE, TRUE, <<"TypeError">>)
       ELSE check_rate_and_after(rm, intent, current_positions, minute)

\* check_order_intent, the checks after the halted flag (lines 75-125).
\* A position's qty is a float (Position.qty, alpaca get_positions), so the
\* product new_qty * Decimal(...) on line 94 raises TypeError whenever the
\* intent's symbol is among the positions.
check_limits_and_after(rm, intent, current_positions, minute) ==
    LET order_value == intent.qty * intent.limit_price
    IN IF rm.daily_pnl <= -rm.limits.daily_loss_limit
       THEN Outcome(_halt_trading(rm, "Daily loss limit exceeded"),
                    FALSE, FALSE, <<"Daily loss limit exceeded">>)
       ELSE IF rm.limits.weekly_loss_limit # 0
               /\ rm.weekly_pnl <= -rm.limits.weekly_loss_limit
       THEN Outcome(_halt_trading(rm, "Weekly loss limit exceeded"),
                    FALSE, FALSE, <<"Weekly loss limit exceeded">>)
       ELSE IF rm.limits.max_single_order_value # 0
               /\ order_value > rm.limits.max_single_order_value
       THEN Outcome(rm, FALSE, FALSE, <<"Order value exceeds max">>)
       ELSE IF intent.symbol \in DOMAIN current_positions
       THEN Outcome(rm, FALSE, TRUE, <<"TypeError">>)
       ELSE check_rate_and_after(rm, intent, current_positions, minute)

\* (mutation) the halted flag is not consulted
check_order_intent_ignoring_halt(rm, intent, current_positions, minute) ==
    check_limits_and_after(rm, intent, current_positions, minute)

\* check_order_intent(intent, current_positions) -> (is_allowed, reason)
check_order_intent(rm, intent, current_positions, minute) ==
    IF rm.is_halted
    THEN Outcome(rm, FALSE, FALSE, <<"Trading halted", rm.halt_reason>>)
    ELSE check_limits_and_after(rm, intent, current_positions, minute)

\* update_pnl(daily_pnl, weekly_pnl=None)
update_pnl(rm, daily_pnl, weekly_pnl) ==
    LET rm1 == [rm EXCEPT !.daily_pnl = daily_pnl,
                          !.weekly_pnl = IF IsNone(weekly_pnl) THEN @
                                         ELSE Val(weekly_pnl)]
        rm2 == _update_risk_level(rm1)
        l == rm.limits.daily_loss_limit
    IN IF daily_pnl <= -l
       THEN _halt_trading(rm2, "Daily loss limit exceeded")
       ELSE IF ~IsNone(weekly_pnl) /\ Val(weekly_pnl) # 0
               /\ rm.limits.weekly_loss_limit # 0
               /\ Val(weekly_pnl) <= -rm.limits.weekly_loss_limit
       THEN _halt_trading(rm2, "Weekly loss limit exceeded")
       ELSE IF 100 * daily_pnl <= -l * rm.limits.margin_call_threshold
       THEN [rm2 EXCEPT !.risk_level = "high"]
       ELSE rm2

\* update_daily_pnl(pnl).  With a float daily_loss_limit the division
\* Decimal / float in _update_risk_level raises TypeError after the
\* assignment to daily_pnl.
update_daily_pnl(rm, pnl) ==
    IF rm.limits.float_limits
    THEN [rm EXCEPT !.daily_pnl = pnl]
    ELSE _update_risk_level([rm EXCEPT !.daily_pnl = pnl])

\* resume_trading()
resume_trading(rm) ==
    [rm EXCEPT !.is_halted = FALSE, !.halt_reason = "None"]

\* emergency_halt()
emergency_halt(rm) == _halt_trading(rm, "Emergency halt activated")

\* reset_daily_pnl()
reset_daily_pnl(rm) ==
    [rm EXCEPT !.daily_pnl = 0, !.daily_trades = 0, !.orders_this_minute = 0]

\* check_result before any call; `call` alternates 0/1 with every call
NoCheck ==
    [ call |-> 0, is_allowed |-> FALSE, raised |-> FALSE, reason |-> <<"None">> ]

\* the record of one check_order_intent call: what it returned
CheckRecord(prev, out) ==
    [ call |-> 1 - prev.call, is_allowed |-> out.is_allowed,
      raised |-> out.raised, reason |-> out.reason ]

IdleTask == [pc |-> "idle", id |-> 0, symbol |-> "", same_snapshot |-> FALSE]

(***************************************************************************)
(* AlpacaAdapter.place_order: the request it builds                        *)
(***************************************************************************)
\* (mutation) a request is built for every order type
place_order_accepts_any_type(intent) == TRUE

\* TRUE when place_order builds an order request; otherwise it raises
\* ValueError (limit order without price, unsupported order type)
place_order_accepts(intent) ==
    \/ intent.order_type = "market"
    \/ intent.order_type = "limit" /\ intent.limit_price # 0

(***************************************************************************)
(* TradingEngine: the decision pipeline                                    *)
(***************************************************************************)
Min(a, b) == IF a < b THEN a ELSE b

\* what one pass through the pipeline did: the RiskManager afterwards, whether
\* check_order_intent was called and what it returned, whether the intent was
\* logged as a shadow signal, the order handed to place_order (none: <<>>)
\* and the await the coroutine is suspended at afterwards ("idle": returned)
Effect(rm, checked, out, shadowed, order, pc) ==
    [ rm |-> rm, checked |-> checked, out |-> out, shadowed |-> shadowed,
      order |-> order, pc |-> pc ]

NoOutcome(rm) == Outcome(rm, FALSE, FALSE, <<"None">>)

\* _place_live_order(intent): the safety check, then place_order
_place_live_order(rm, out, intent) ==
    LET order_value == intent.qty * (IF intent.limit_price # 0
                                     THEN intent.limit_price
                                     ELSE NoLimitReferencePrice)
    IN IF order_value > MaxSingleOrderValue
       THEN Effect(rm, TRUE, out, FALSE, <<>>, "idle")
       ELSE IF ~place_order_accepts(intent)
       THEN Effect(rm, TRUE, out, FALSE, <<>>, "record_rejection")
       ELSE Effect(rm, TRUE, out, FALSE, <<intent>>, "record_order")

\* (mutation) the result of the risk check is not looked at
_process_strategy_signal_unchecked(rm, enabled, mode, signal, held, minute) ==
    LET out == check_order_intent(rm, signal, held, minute)
    IN IF ~enabled
       THEN Effect(rm, FALSE, NoOutcome(rm), FALSE, <<>>, "idle")
       ELSE IF out.raised
       THEN Effect(out.rm, TRUE, out, FALSE, <<>>, "idle")
       ELSE _place_live_order(out.rm, out, signal)

\* (mutation) a shadow signal is logged whatever the risk check returned
_process_strategy_signal_logging_rejected(rm, enabled, mode, signal, held, minute) ==
    LET out == check_order_intent(rm, signal, held, minute)
    IN IF ~enabled
       THEN Effect(rm, FALSE, NoOutcome(rm), FALSE, <<>>, "idle")
       ELSE IF out.raised
       THEN Effect(out.rm, TRUE, out, FALSE, <<>>, "idle")
       ELSE IF mode = "shadow"
       THEN Effect(out.rm, TRUE, out, TRUE, <<>>, "log_shadow")
       ELSE IF ~out.is_allowed
       THEN Effect(out.rm, TRUE, out, FALSE, <<>>, "log_rejected")
       ELSE IF mode = "canary"
       THEN _place_live_order(out.rm, out,
                              [signal EXCEPT !.qty = Min(signal.qty, CanaryCap)])
       ELSE IF mode = "enabled"
       THEN _place_live_order(out.rm, out, signal)
       ELSE Effect(out.rm, TRUE, out, FALSE, <<>>, "idle")

\* (mutation) canary signals keep the requested quantity
_process_strategy_signal_uncapped(rm, enabled, mode, signal, held, minute) ==
    LET out == check_order_intent(rm, signal, held, minute)
    IN IF ~enabled
       THEN Effect(rm, FALSE, NoOutcome(rm), FALSE, <<>>, "idle")
       ELSE IF out.raised
       THEN Effect(out.rm, TRUE, out, FALSE, <<>>, "idle")
       ELSE IF ~out.is_allowed
       THEN Effect(out.rm, TRUE, out, FALSE, <<>>, "log_rejected")
       ELSE IF mode = "shadow"
       THEN Effect(out.rm, TRUE, out, TRUE, <<>>, "log_shadow")
       ELSE IF mode \in {"canary", "enabled"}
       THEN _place_live_order(out.rm, out, signal)
       ELSE Effect(out.rm, TRUE, out, FALSE, <<>>, "idle")

\* _process_strategy_signal(signal, strategy_name), up to its first
\* suspension: neither check_order_intent nor place_order yields to the
\* event loop (the adapter calls the synchronous trading client)
_process_strategy_signal(rm, enabled, mode, signal, held, minute) ==
    LET out == check_order_intent(rm, signal, held, minute)
    IN IF ~enabled
       THEN Effect(rm, FALSE, NoOutcome(rm), FALSE, <<>>, "idle")
       ELSE IF out.raised
       THEN Effect(out.rm, TRUE, out, FALSE, <<>>, "idle")
       ELSE IF ~out.is_allowed
       THEN Effect(out.rm, TRUE, out, FALSE, <<>>, "log_rejected")
       ELSE IF mode = "shadow"
       THEN Effect(out.rm, TRUE, out, TRUE, <<>>, "log_shadow")
       ELSE IF mode = "canary"
       THEN _place_live_order(out.rm, out,
                              [signal EXCEPT !.qty = Min(signal.qty, CanaryCap)])
       ELSE IF mode = "enabled"
       THEN _place_live_order(out.rm, out, signal)
       ELSE Effect(out.rm, TRUE, out, FALSE, <<>>, "idle")

\* execute_order_intent(intent): positions fetched from the broker, the risk
\* check, then place_order; a ValueError of place_order is caught
execute_order_intent(rm, enabled, mode, intent, held, minute) ==
    LET out == check_order_intent(rm, intent, held, minute)
    IN IF out.raised \/ ~out.is_allowed
       THEN Effect(out.rm, TRUE, out, FALSE, <<>>, "idle")
       ELSE IF ~place_order_accepts(intent)
       THEN Effect(out.rm, TRUE, out, FALSE, <<>>, "idle")
       ELSE Effect(out.rm, TRUE, out, FALSE, <<intent>>, "idle")

ModeOf(name) ==
    IF name \in DOMAIN strategy_modes THEN strategy_modes[name] ELSE "disabled"

\* the record of an order handed to the broker
Order(id, intent, via) ==
    [ id |-> id, symbol |-> intent.symbol, qty |-> intent.qty, via |-> via ]

\* the engine's state after one pass `eff` for the intent number `id`
Apply(eff, id, t, symbol, via) ==
    /\ risk' = eff.rm
    /\ check_result' = IF eff.checked THEN CheckRecord(check_result, eff.out)
                       ELSE check_result
    /\ approved_this_minute' =
           IF eff.checked /\ eff.out.is_allowed THEN approved_this_minute + 1
           ELSE approved_this_minute
    /\ approved' = IF eff.checked /\ eff.out.is_allowed THEN approved \cup {id}
                   ELSE approved
    /\ shadow_log' = IF eff.shadowed THEN shadow_log \cup {id} ELSE shadow_log
    /\ broker_orders' = IF eff.order = <<>> THEN broker_orders
                        ELSE Append(broker_orders, Order(id, eff.order[1], via))
    /\ tasks' = IF eff.pc = "idle" THEN tasks
                ELSE [tasks EXCEPT ![t] = [pc |-> eff.pc, id |-> id,
                                           symbol |-> symbol,
                                           same_snapshot |-> TRUE]]
    /\ next_id' = id

\* last_signal where signals are not recorded, and before the first signal
\* where they are; `n` alternates 0/1 with every signal taken up
UnrecordedSignal == [n |-> 0, mode |-> "unrecorded", signal |-> <<>>]
NoSignal == [n |-> 0, mode |-> "none", signal |-> <<>>]

\* _process_strategy_signal was entered with `signal` for a strategy in `mode`
TakenUp(mode, signal) ==
    last_signal' = IF last_signal = UnrecordedSignal THEN last_signal
                   ELSE [n |-> 1 - last_signal.n, mode |-> mode,
                         signal |-> <<signal>>]

\* the first free slot for a coroutine (0: none is free)
FreeTask ==
    IF \E t \in 1..MaxTasks : tasks[t].pc = "idle"
    THEN CHOOSE t \in 1..MaxTasks :
            /\ tasks[t].pc = "idle"
            /\ \A u \in 1..(t - 1) : tasks[u].pc # "idle"
    ELSE 0

\* _on_market_bar: a strategy that is not disabled answers the bar with a
\* signal, which _process_strategy_signal takes up
OnMarketBar(t, signal, name) ==
    /\ next_id < MaxSignals
    /\ t = FreeTask
    /\ name \in strategies
    /\ ModeOf(name) # "disabled"
    /\ Apply(_process_strategy_signal(risk, trading_enabled, ModeOf(name),
                                      signal, positions, now),
             next_id + 1, t, signal.symbol, "signal")
    /\ TakenUp(ModeOf(name), signal)
    /\ UNCHANGED <<ioVars, now, trading_enabled, strategies, strategy_modes, positions,
                   pending_orders, last_command, flattened, channel, ctlVars>>

\* a caller runs execute_order_intent(intent); the broker reports `held`
ExecuteOrderIntent(t, intent, held) ==
    /\ next_id < MaxSignals
    /\ t = FreeTask
    /\ Apply(execute_order_intent(risk, trading_enabled, "enabled", intent,
                                  held, now),
             next_id + 1, t, intent.symbol, "execute")
    /\ UNCHANGED <<ioVars, now, trading_enabled, strategies, strategy_modes, positions,
                   pending_orders, last_command, flattened, last_signal,
                   channel, ctlVars>>

\* the awaited database or monitoring call of a signal in flight returns
TaskComplete(t) ==
    /\ tasks[t].pc # "idle"
    /\ pending_orders' = IF tasks[t].pc = "record_order"
                         THEN pending_orders \cup {tasks[t].id}
                         ELSE pending_orders
    /\ tasks' = [tasks EXCEPT ![t] = IdleTask]
    /\ UNCHANGED <<ioVars, riskVars, trading_enabled, strategies, strategy_modes,
                   positions, broker_orders, approved, next_id, shadow_log,
                   last_command, flattened, last_signal, channel, ctlVars>>

\* _reconcile_positions: the cache is replaced by what the broker reports
ReconcilePositions(held) ==
    /\ positions' = held
    /\ tasks' = [t \in DOMAIN tasks |-> [tasks[t] EXCEPT !.same_snapshot = FALSE]]
    /\ UNCHANGED <<ioVars, riskVars, trading_enabled, strategies, strategy_modes,
                   broker_orders, approved, next_id, shadow_log, pending_orders,
                   last_command, flattened, last_signal, channel, ctlVars>>

\* _snapshot_account: daily P&L summed over the cached positions
SnapshotAccount ==
    /\ risk' = update_daily_pnl(risk,
                   SumOver([s \in DOMAIN positions |-> positions[s].unrealized_pnl],
                           DOMAIN positions))
    /\ UNCHANGED <<ioVars, now, check_result, approved_this_minute, engineVars, channel,
                   ctlVars>>

\* add_strategy(strategy, mode)
AddStrategy(name, mode) ==
    /\ mode \in {"shadow", "canary", "enabled"}
    /\ strategies' = strategies \cup {name}
    /\ strategy_modes' = [n \in DOMAIN strategy_modes \cup {name} |->
                             IF n = name THEN mode ELSE strategy_modes[n]]
    /\ UNCHANGED <<ioVars, riskVars, trading_enabled, positions, tasks, broker_orders,
                   approved, next_id, shadow_log, pending_orders, last_command,
                   flattened, last_signal, channel, ctlVars>>

(***************************************************************************)
(* The command channel                                                     *)
(***************************************************************************)
Publish(msgs) == channel' = channel \o msgs
Room(n) == Len(channel) + n <= MaxChannel

\* admin API: set_trading_enabled(enabled)
AdminSetTradingEnabled(enabled) ==
    /\ Len(channel) < MaxPending
    /\ Publish(<<Msg("trading_enabled", "", "", enabled, "")>>)
    /\ UNCHANGED <<ioVars, riskVars, engineVars, ctlVars>>

\* admin API: toggle_strategy(name, status)
AdminToggleStrategy(name, status) ==
    /\ Len(channel) < MaxPending
    /\ Publish(<<Msg("strategy_update", name, status, "absent", "")>>)
    /\ UNCHANGED <<ioVars, riskVars, engineVars, ctlVars>>

\* admin API: flatten_all_positions()
AdminFlattenAll ==
    /\ Len(channel) < MaxPending
    /\ Publish(<<Command("flatten_all")>>)
    /\ UNCHANGED <<ioVars, riskVars, engineVars, ctlVars>>

\* admin API: update_config(config); the published config carries both limits
AdminUpdateConfig(daily, possize) ==
    /\ Len(channel) < MaxPending
    /\ Publish(<<[Command("config_update") EXCEPT !.daily_loss_limit = daily,
                                                  !.max_position_size = possize]>>)
    /\ UNCHANGED <<ioVars, riskVars, engineVars, ctlVars>>

\* messages that reach the channel without passing the admin API: a command
\* name the engine has no branch for, a status that is no StrategyMode, data
\* that is not JSON, and a config naming a RiskLimits field the API lacks
RawMessages ==
    { Command("EMERGENCY_STOP"),
      Msg("strategy_update", "momentum", "bogus", "absent", ""),
      NotJson,
      [Command("config_update") EXCEPT !.max_daily_trades = 5] }

\* any client of the Redis server publishes on engine:commands
DeliverMessage(message) ==
    /\ Len(channel) < MaxPending
    /\ Publish(<<message>>)
    /\ UNCHANGED <<ioVars, riskVars, engineVars, ctlVars>>

\* (mutation) a trading_enabled command without the field counts as on
_handle_command_enabled_by_default(command) ==
    LET cmd_type == command.command
    IN /\ flattened' = (flattened \/ cmd_type = "flatten_all")
       /\ trading_enabled' = IF cmd_type = "trading_enabled"
                             THEN command.enabled # "false"
                             ELSE trading_enabled
       /\ strategy_modes' =
             IF /\ cmd_type = "strategy_update"
                /\ command.strategy # "" /\ command.status # ""
                /\ command.status \in StrategyModes
             THEN [n \in DOMAIN strategy_modes \cup {command.strategy} |->
                     IF n = command.strategy THEN command.status
                     ELSE strategy_modes[n]]
             ELSE strategy_modes
       /\ risk' =
             IF cmd_type = "config_update"
             THEN [risk EXCEPT
                     !.limits.daily_loss_limit =
                        IF command.daily_loss_limit # 0
                        THEN command.daily_loss_limit ELSE @,
                     !.limits.max_position_size =
                        IF command.max_position_size # 0
                        THEN command.max_position_size ELSE @]
             ELSE risk

\* _handle_command(command): the engine's state after the command.  A zero
\* limit in a config_update stands for a key the payload does not carry.
_handle_command(command) ==
    LET cmd_type == command.command
    IN /\ flattened' = (flattened \/ cmd_type = "flatten_all")
       /\ trading_enabled' = IF cmd_type = "trading_enabled"
                             THEN command.enabled = "true"
                             ELSE trading_enabled
       /\ strategy_modes' =
             IF /\ cmd_type = "strategy_update"
                /\ command.strategy # "" /\ command.status # ""
                /\ command.status \in StrategyModes
             THEN [n \in DOMAIN strategy_modes \cup {command.strategy} |->
                     IF n = command.strategy THEN command.status
                     ELSE strategy_modes[n]]
             ELSE strategy_modes
       /\ risk' =
             IF cmd_type = "config_update"
             THEN [risk EXCEPT
                     !.limits.daily_loss_limit =
                        IF command.daily_loss_limit # 0
                        THEN command.daily_loss_limit ELSE @,
                     !.limits.max_position_size =
                        IF command.max_position_size # 0
                        THEN command.max_position_size ELSE @]
             ELSE risk

\* StrategyMode(status) raises ValueError for a status that is no mode
HandlerRaises(command) ==
    /\ command.command = "strategy_update"
    /\ command.strategy # "" /\ command.status # ""
    /\ command.status \notin StrategyModes

\* (mutation) no try/except around the body of the loop: an exception ends
\* the listener task
_listen_for_commands_uncaught(message) ==
    /\ IF IsValidJson(message) THEN _handle_command(message)
       ELSE UNCHANGED <<flattened, trading_enabled, strategy_modes, risk>>
    /\ listening' = (IsValidJson(message) /\ ~HandlerRaises(message))

\* _listen_for_commands, the body of the loop for one message: json.loads
\* and _handle_command run inside try/except Exception, so a failure is
\* logged and the loop goes on to the next message
_listen_for_commands(message) ==
    /\ IF IsValidJson(message) THEN _handle_command(message)
       ELSE UNCHANGED <<flattened, trading_enabled, strategy_modes, risk>>
    /\ listening' = listening

\* _listen_for_commands: the next message of the channel is handled
HandleCommand ==
    /\ listening
    /\ channel # <<>>
    /\ _listen_for_commands(Head(channel))
    /\ last_command' = Head(channel).command
    /\ channel' = Tail(channel)
    /\ UNCHANGED <<adapterVars, barVars, monitorVars, pauseVars, now, check_result, approved_this_minute, strategies,
                   positions, tasks, broker_orders, approved, next_id,
                   shadow_log, pending_orders, last_signal, ctlVars>>

(***************************************************************************)
(* ProductionController                                                    *)
(***************************************************************************)
\* the checklist items pre_flight_check assigns from what it reads
ProbedItems ==
    { "api_connection", "database_connection", "redis_connection",
      "market_data_streaming", "account_verified", "sufficient_capital",
      "strategies_tested", "backtest_profitable", "kill_switch_tested",
      "alerts_configured", "monitoring_active" }

\* the items it assigns only when the key it reads is present
ConditionalItems ==
    { "market_data_streaming", "account_verified", "sufficient_capital",
      "strategies_tested", "backtest_profitable" }

\* the checklist items no code of the repository assigns
UnassignedItems ==
    { "no_pending_orders", "risk_limits_set", "shadow_mode_verified",
      "canary_trades_successful", "rollback_plan_ready",
      "trading_permissions", "pattern_day_trader_check",
      "tax_implications_understood" }

\* LiveTradingChecklist(): every item defaults to False
LiveTradingChecklist == [i \in ProbedItems \cup UnassignedItems |-> FALSE]

all_passed(c) == \A i \in DOMAIN c : c[i]

\* what the keys pre_flight_check reads hold: every key as it must be
\* ("ok"), present with a failing value ("bad"), or no key at all ("absent")
ProbeChoices == {"ok", "bad", "absent"}

\* the checklist after pre_flight_check
pre_flight_check(c, probe) ==
    [i \in DOMAIN c |->
        IF i \notin ProbedItems THEN c[i]
        ELSE IF probe = "ok" THEN TRUE
        ELSE IF probe = "bad" THEN i = "redis_connection"
        ELSE IF i \in ConditionalItems THEN c[i]
        ELSE i = "redis_connection"]

\* what redis holds under shadow:statistics, canary:statistics and
\* ramp:statistics when a method reads it
ShadowStats == {"absent", "under_24h", "24h"}
CanaryStats == {"absent", "below_80pct", "80pct"}
RampStats == {"absent", "present"}

\* the record of one call of a public method: what it read and returned;
\* `n` alternates 0/1 with every call.  The record is kept only in the
\* behaviours that start with one (NoCall); elsewhere it stays Unrecorded.
Unrecorded == [n |-> 0, op |-> "unrecorded", input |-> <<>>, ok |-> FALSE]
NoCall == [n |-> 0, op |-> "none", input |-> <<>>, ok |-> FALSE]
Returned(op, input, ok) ==
    last_call' = IF last_call = Unrecorded THEN last_call
                 ELSE [n |-> 1 - last_call.n, op |-> op, input |-> input,
                       ok |-> ok]

SetMode(mode) == [Command("set_mode") EXCEPT !.mode = mode]

\* the two statistics monitors; the state that starts each one is its name.
\* A task is "idle" (none running), "at_top" (created, or back from its
\* sleep: about to test self.state) or "reading" (the test passed and the
\* lrange is awaited).  The tasks are followed only in the behaviours that
\* start with IdleMonitors; elsewhere they stay UntrackedMonitors.
MonitorKinds == {"shadow", "canary"}
UntrackedMonitors == [k \in MonitorKinds |-> "untracked"]
IdleMonitors == [k \in MonitorKinds |-> "idle"]

\* asyncio.create_task(self._monitor_<kind>...())
create_monitor_task(kind) ==
    monitors' = IF monitors = UntrackedMonitors THEN monitors
                ELSE [monitors EXCEPT ![kind] = "at_top"]

\* "flatten" in reason.lower()
HasFlattenDirective(reason) == reason \in {"manual - FLATTEN ALL"}

StopReasons == {"manual", "manual - FLATTEN ALL"}

\* (mutation) the result of the pre-flight check is not looked at
start_shadow_mode_ignoring_preflight(probe) ==
    /\ Room(1)
    /\ checklist' = pre_flight_check(checklist, probe)
    /\ state' = "shadow"
    /\ Publish(<<SetMode("shadow")>>)
    /\ shadow_monitor' = TRUE
    /\ create_monitor_task("shadow")
    /\ Returned("start_shadow_mode", <<probe>>, TRUE)
    /\ UNCHANGED <<adapterVars, barVars, listenerVars, pauseVars, stats_writes, ramp, riskVars,
                   engineVars, audit_log, resume_timers, ramp_day>>

\* start_shadow_mode()
start_shadow_mode(probe) ==
    LET c == pre_flight_check(checklist, probe)
    IN /\ Room(1)
       /\ checklist' = c
       /\ IF all_passed(c)
          THEN /\ state' = "shadow"
               /\ Publish(<<SetMode("shadow")>>)
               /\ shadow_monitor' = TRUE
               /\ create_monitor_task("shadow")
          ELSE UNCHANGED <<monitors, state, channel, shadow_monitor>>
       /\ Returned("start_shadow_mode", <<probe>>, all_passed(c))
       /\ UNCHANGED <<adapterVars, barVars, listenerVars, pauseVars, stats_writes, ramp, riskVars,
                      engineVars, audit_log, resume_timers, ramp_day>>

\* start_canary_mode(initial_size)
start_canary_mode(shadow_stats) ==
    /\ Room(1)
    /\ IF shadow_stats = "24h"
       THEN /\ state' = "canary"
            /\ Publish(<<SetMode("canary")>>)
            /\ create_monitor_task("canary")
       ELSE UNCHANGED <<monitors, state, channel>>
    /\ Returned("start_canary_mode", <<shadow_stats>>, shadow_stats = "24h")
    /\ UNCHANGED <<adapterVars, barVars, listenerVars, pauseVars, stats_writes, ramp, riskVars,
                   engineVars, audit_log, checklist, resume_timers, ramp_day,
                   shadow_monitor>>

\* the gradual_ramp_up call is followed only in the behaviours that start
\* with NoRamp; elsewhere the record stays UntrackedRamp
UntrackedRamp == [days |-> -1, waited |-> 0, returned |-> TRUE]
NoRamp == [days |-> 0, waited |-> 0, returned |-> TRUE]

\* gradual_ramp_up enters its loop over range(days)
ramp_entered(days) ==
    ramp' = IF ramp = UntrackedRamp THEN ramp
            ELSE [days |-> days, waited |-> 0, returned |-> FALSE]

\* `await self._schedule_config_update(day, ...)` inside the loop: the caller
\* sleeps 86400 * day seconds, day after day one after the other, and
\* returns after the last one
ramp_slept ==
    ramp' = IF ramp = UntrackedRamp THEN ramp
            ELSE [ramp EXCEPT !.waited = @ + (ramp.days - 1 - ramp_day),
                              !.returned = (ramp_day = 0)]

\* (mutation) any canary statistics are enough, whatever the success rate
gradual_ramp_up_any_statistics(canary_stats, days) ==
    /\ ramp_day = -1
    /\ IF canary_stats # "absent"
       THEN state' = "ramping" /\ ramp_day' = days - 1 /\ ramp_entered(days)
       ELSE UNCHANGED <<ramp, state, ramp_day>>
    /\ Returned("gradual_ramp_up", <<canary_stats>>, canary_stats # "absent")
    /\ UNCHANGED <<adapterVars, barVars, listenerVars, pauseVars, monitors, stats_writes,
                   riskVars, engineVars, channel, audit_log, checklist,
                   resume_timers, shadow_monitor>>

\* gradual_ramp_up(target_size, days), up to its first sleep; the caller
\* awaits it, so one ramp-up runs at a time
gradual_ramp_up(canary_stats, days) ==
    /\ ramp_day = -1
    /\ IF canary_stats = "80pct"
       THEN state' = "ramping" /\ ramp_day' = days - 1 /\ ramp_entered(days)
       ELSE UNCHANGED <<ramp, state, ramp_day>>
    /\ Returned("gradual_ramp_up", <<canary_stats>>, canary_stats = "80pct")
    /\ UNCHANGED <<adapterVars, barVars, listenerVars, pauseVars, monitors, stats_writes,
                   riskVars, engineVars, channel, audit_log, checklist,
                   resume_timers, shadow_monitor>>

\* _schedule_config_update(day, config): the sleep of a running ramp-up
\* ends (ramp_day counts the days still to come)
_schedule_config_update ==
    /\ ramp_day >= 0
    /\ Room(1)
    /\ ramp_day' = ramp_day - 1
    /\ IF state = "ramping"
       THEN Publish(<<Command("update_config")>>)
       ELSE UNCHANGED channel
    /\ ramp_slept
    /\ UNCHANGED <<adapterVars, barVars, listenerVars, pauseVars, monitors, stats_writes,
                   riskVars, engineVars, state, audit_log, checklist,
                   resume_timers, shadow_monitor, last_call>>

\* (mutation) the final pre-flight check is left out
enable_live_trading_without_preflight(confirmed, probe, ramp_stats) ==
    LET go == confirmed /\ ramp_stats = "present"
    IN /\ Room(1)
       /\ Len(audit_log) < MaxAudit
       /\ IF go
          THEN /\ state' = "live"
               /\ Publish(<<Command("enable_live_trading")>>)
               /\ audit_log' = Append(audit_log,
                                      [action |-> "LIVE_TRADING_ENABLED",
                                       reason |-> ""])
          ELSE UNCHANGED <<ioVars, state, channel, audit_log>>
       /\ Returned("enable_live_trading", <<confirmed, probe, ramp_stats>>, go)
       /\ UNCHANGED <<ioVars, riskVars, engineVars, checklist, resume_timers, ramp_day,
                      shadow_monitor>>

\* enable_live_trading(final_confirmation)
enable_live_trading(confirmed, probe, ramp_stats) ==
    LET c == IF confirmed THEN pre_flight_check(checklist, probe) ELSE checklist
        go == confirmed /\ all_passed(c) /\ ramp_stats = "present"
    IN /\ Room(1)
       /\ Len(audit_log) < MaxAudit
       /\ checklist' = c
       /\ IF go
          THEN /\ state' = "live"
               /\ Publish(<<Command("enable_live_trading")>>)
               /\ audit_log' = Append(audit_log,
                                      [action |-> "LIVE_TRADING_ENABLED",
                                       reason |-> ""])
          ELSE UNCHANGED <<ioVars, state, channel, audit_log>>
       /\ Returned("enable_live_trading", <<confirmed, probe, ramp_stats>>, go)
       /\ UNCHANGED <<ioVars, riskVars, engineVars, resume_timers, ramp_day,
                      shadow_monitor>>

\* the commands emergency_stop(reason) publishes, in order
emergency_stop_commands(reason) ==
    <<Msg("EMERGENCY_STOP", "", "", "absent", reason),
      Command("cancel_all_orders")>>
    \o (IF HasFlattenDirective(reason)
        THEN <<Command("flatten_all_positions")>> ELSE <<>>)

\* (mutation) an emergency stop refused while trading is paused
emergency_stop_unless_paused(reason) ==
    /\ state # "paused"
    /\ Room(Len(emergency_stop_commands(reason)))
    /\ Len(audit_log) < MaxAudit
    /\ state' = "emergency_stop"
    /\ Publish(emergency_stop_commands(reason))
    /\ audit_log' = Append(audit_log,
                           [action |-> "EMERGENCY_STOP", reason |-> reason])
    /\ Returned("emergency_stop", <<reason>>, TRUE)
    /\ UNCHANGED <<ioVars, riskVars, engineVars, checklist, resume_timers, ramp_day,
                   shadow_monitor>>

\* emergency_stop(reason)
emergency_stop(reason) ==
    /\ Room(Len(emergency_stop_commands(reason)))
    /\ Len(audit_log) < MaxAudit
    /\ state' = "emergency_stop"
    /\ Publish(emergency_stop_commands(reason))
    /\ audit_log' = Append(audit_log,
                           [action |-> "EMERGENCY_STOP", reason |-> reason])
    /\ Returned("emergency_stop", <<reason>>, TRUE)
    /\ UNCHANGED <<ioVars, riskVars, engineVars, checklist, resume_timers, ramp_day,
                   shadow_monitor>>

\* the _auto_resume tasks are followed one by one only where a
\* specification starts with NoPauses; elsewhere they are only counted
UntrackedPauses == <<"untracked">>
NoPauses == <<>>

\* how many _auto_resume tasks may sleep at once
TimerRoom == IF pauses = UntrackedPauses THEN MaxTimers ELSE MaxFollowedTimers

\* asyncio.create_task(self._auto_resume(duration_minutes))
create_resume_task ==
    pauses' = IF pauses = UntrackedPauses THEN pauses
              ELSE Append(pauses, state)

\* await asyncio.sleep(minutes * 60) returns: with the default duration of
\* every call the task created first wakes first
resume_task_wakes ==
    pauses' = IF pauses = UntrackedPauses THEN pauses ELSE Tail(pauses)

\* pause_trading(duration_minutes)
pause_trading ==
    /\ Room(1)
    /\ resume_timers < TimerRoom
    /\ state' = "paused"
    /\ Publish(<<Command("pause_trading")>>)
    /\ resume_timers' = resume_timers + 1
    /\ create_resume_task
    /\ Returned("pause_trading", <<>>, TRUE)
    /\ UNCHANGED <<adapterVars, barVars, listenerVars, monitorVars, riskVars,
                   engineVars, audit_log, checklist, ramp_day, shadow_monitor>>

\* (mutation) the resume does not look at the state it finds
_auto_resume_unconditional ==
    /\ resume_timers > 0
    /\ Room(1)
    /\ resume_timers' = resume_timers - 1
    /\ resume_task_wakes
    /\ state' = "live"
    /\ Publish(<<Command("resume_trading")>>)
    /\ UNCHANGED <<adapterVars, barVars, listenerVars, monitorVars, riskVars,
                   engineVars, audit_log, checklist, ramp_day, shadow_monitor,
                   last_call>>

\* _auto_resume(minutes): the sleep of one of the tasks ends
_auto_resume ==
    /\ resume_timers > 0
    /\ Room(1)
    /\ resume_timers' = resume_timers - 1
    /\ resume_task_wakes
    /\ IF state = "paused"
       THEN state' = "live" /\ Publish(<<Command("resume_trading")>>)
       ELSE UNCHANGED <<state, channel>>
    /\ UNCHANGED <<adapterVars, barVars, listenerVars, monitorVars, riskVars,
                   engineVars, audit_log, checklist, ramp_day, shadow_monitor,
                   last_call>>

\* the statistics _monitor_shadow_performance writes: duration_hours is
\* the literal 0 ("Calculate from start time" is a comment, not code)
shadow_statistics(intents) ==
    [total_intents |-> intents, duration_hours |-> 0, would_be_pnl |-> 0]

\* what start_canary_mode makes of shadow:statistics it finds
ReadShadowStatistics(stats) ==
    IF stats.duration_hours < MinShadowHours THEN "under_24h" ELSE "24h"

\* _monitor_shadow_performance / _monitor_canary_trades: the loop condition
\* `while self.state == ...` is evaluated; when it holds the task awaits
\* the lrange of its list, otherwise the task ends
MonitorTestsState(kind) ==
    /\ monitors[kind] = "at_top"
    /\ monitors' = [monitors EXCEPT
                      ![kind] = IF state = kind THEN "reading" ELSE "idle"]
    /\ UNCHANGED <<adapterVars, barVars, listenerVars, pauseVars, stats_writes, ramp, riskVars,
                   engineVars, channel, ctlVars>>

\* the lrange returns and the task goes on without looking at self.state
\* again: the shadow monitor always writes shadow:statistics, the canary
\* monitor writes canary:statistics when the list has entries; then the
\* task sleeps
MonitorWritesStatistics(kind, has_entries) ==
    /\ monitors[kind] = "reading"
    /\ stats_writes' = IF kind = "shadow" \/ has_entries
                       THEN stats_writes \cup {<<kind, state>>}
                       ELSE stats_writes
    /\ monitors' = [monitors EXCEPT ![kind] = "at_top"]
    /\ UNCHANGED <<adapterVars, barVars, listenerVars, pauseVars, ramp, riskVars,
                   engineVars, channel, ctlVars>>

(***************************************************************************)
(* AlpacaAdapter.place_order with its pending_orders                       *)
(***************************************************************************)
\* the client order id place_order generates: strategy, symbol and the
\* wall clock at microsecond resolution
GeneratedId(strategy_name, symbol, instant) == <<strategy_name, symbol, instant>>

\* the client_order_id argument: absent, the id of the repository's test, or
\* an id a caller derived the way place_order does
ClientOrderIds ==
    { None, Some(<<"test_duplicate_order">>),
      Some(GeneratedId("momentum", "AAPL", 0)) }

Instants == 0..MaxInstant

\* what place_order returned or raised
PlaceResult(prev, status, client_order_id, id) ==
    [ n |-> 1 - prev.n, status |-> status, client_order_id |-> client_order_id,
      id |-> id ]

NoResult == [n |-> 0, status |-> "none", client_order_id |-> <<>>, id |-> 0]

\* AlpacaAdapter.__init__; `orders` are the orders the broker created, each
\* under the client order id it was submitted with
AlpacaAdapterInit ==
    [ pending_orders |-> [c \in {} |-> 0], orders |-> <<>>, result |-> NoResult ]

\* (mutation) no look-up of the client order id in pending_orders
place_order_without_lookup(a, intent, strategy_name, client_order_id, instant, submit_ok) ==
    LET cid == IF IsNone(client_order_id)
               THEN GeneratedId(strategy_name, intent.symbol, instant)
               ELSE Val(client_order_id)
        id == Len(a.orders) + 1
    IN IF ~place_order_accepts(intent) \/ ~submit_ok
       THEN [a EXCEPT !.result = PlaceResult(a.result, "raised", cid, 0)]
       ELSE [ pending_orders |-> [c \in DOMAIN a.pending_orders \cup {cid} |->
                                    IF c = cid THEN id ELSE a.pending_orders[c]],
              orders |-> Append(a.orders, cid),
              result |-> PlaceResult(a.result, "accepted", cid, id) ]

\* place_order(intent, client_order_id): `instant` is the clock it reads when
\* it generates the id, `submit_ok` whether trading_client.submit_order
\* returns an order (TRUE) or raises
place_order(a, intent, strategy_name, client_order_id, instant, submit_ok) ==
    LET cid == IF IsNone(client_order_id)
               THEN GeneratedId(strategy_name, intent.symbol, instant)
               ELSE Val(client_order_id)
        id == Len(a.orders) + 1
    IN IF cid \in DOMAIN a.pending_orders
       THEN [a EXCEPT !.result = PlaceResult(a.result, "duplicate", cid, 0)]
       ELSE IF ~place_order_accepts(intent) \/ ~submit_ok
       THEN [a EXCEPT !.result = PlaceResult(a.result, "raised", cid, 0)]
       ELSE [ pending_orders |-> [c \in DOMAIN a.pending_orders \cup {cid} |->
                                    IF c = cid THEN id ELSE a.pending_orders[c]],
              orders |-> Append(a.orders, cid),
              result |-> PlaceResult(a.result, "accepted", cid, id) ]

\* a caller awaits place_order
PlaceOrder(intent, strategy_name, client_order_id, instant, submit_ok) ==
    /\ Len(alpaca.orders) < MaxBrokerOrders
    /\ alpaca' = place_order(alpaca, intent, strategy_name, client_order_id,
                             instant, submit_ok)
    /\ UNCHANGED <<riskVars, engineVars, channel, ctlVars, barVars, listenerVars, pauseVars,
                 monitorVars>>

(***************************************************************************)
(* BarAggregator and MarketDataHandler.handle_trade                        *)
(***************************************************************************)
Timeframes == 2..MaxTimeframe
PriceChoices == {1, 2, 3}
SizeChoices == {1, 2}
FeedSymbol == "SPY"

MarketBar(symbol, timestamp, open, high, low, close, volume) ==
    [ symbol |-> symbol, timestamp |-> timestamp, open |-> open, high |-> high,
      low |-> low, close |-> close, volume |-> volume ]

Trade(price, size, timestamp) ==
    [ price |-> price, size |-> size, timestamp |-> timestamp ]

\* BarAggregator(timeframe)
BarAggregator(timeframe) ==
    [ timeframe |-> timeframe, bars |-> <<>>, current_bar |-> None,
      last_bar_time |-> None ]

Max(a, b) == IF a > b THEN a ELSE b

\* _get_bar_time(timestamp): the start of the bar period, in seconds
_get_bar_time(agg, seconds_since_epoch) ==
    (seconds_since_epoch \div agg.timeframe) * agg.timeframe

\* deque(maxlen).append
AppendBounded(bars, bar) ==
    IF Len(bars) >= BarsMaxLen THEN Append(Tail(bars), bar)
    ELSE Append(bars, bar)

\* (mutation) the trade that opens a new period still closes the old bar
add_trade_closing_late(agg, symbol, price, volume, timestamp) ==
    LET bar_time == _get_bar_time(agg, timestamp)
        crossed == /\ ~IsNone(agg.current_bar)
                   /\ ~IsNone(agg.last_bar_time)
                   /\ bar_time # Val(agg.last_bar_time)
        completed_bar == IF crossed
                         THEN Some([Val(agg.current_bar) EXCEPT !.close = price])
                         ELSE None
        current_bar ==
            IF crossed \/ IsNone(agg.current_bar)
            THEN MarketBar(symbol, bar_time, price, price, price, price, volume)
            ELSE [Val(agg.current_bar) EXCEPT !.high = Max(@, price),
                                              !.low = Min(@, price),
                                              !.close = price,
                                              !.volume = @ + volume]
    IN [ agg |-> [agg EXCEPT !.bars = IF crossed
                                      THEN AppendBounded(@, Val(completed_bar))
                                      ELSE @,
                             !.current_bar = Some(current_bar),
                             !.last_bar_time = Some(bar_time)],
         completed_bar |-> completed_bar ]

\* (mutation) a bar is completed only by a trade of the period right after it
add_trade_adjacent_only(agg, symbol, price, volume, timestamp) ==
    LET bar_time == _get_bar_time(agg, timestamp)
        crossed == /\ ~IsNone(agg.current_bar)
                   /\ ~IsNone(agg.last_bar_time)
                   /\ bar_time # Val(agg.last_bar_time)
        emitted == crossed /\ bar_time = Val(agg.last_bar_time) + agg.timeframe
        completed_bar == IF emitted THEN agg.current_bar ELSE None
        current_bar ==
            IF crossed \/ IsNone(agg.current_bar)
            THEN MarketBar(symbol, bar_time, price, price, price, price, volume)
            ELSE [Val(agg.current_bar) EXCEPT !.high = Max(@, price),
                                              !.low = Min(@, price),
                                              !.close = price,
                                              !.volume = @ + volume]
    IN [ agg |-> [agg EXCEPT !.bars = IF emitted
                                      THEN AppendBounded(@, Val(completed_bar))
                                      ELSE @,
                             !.current_bar = Some(current_bar),
                             !.last_bar_time = Some(bar_time)],
         completed_bar |-> completed_bar ]

\* add_trade(symbol, price, volume, timestamp): the aggregator afterwards and
\* the bar it returns (None: no bar was completed)
add_trade(agg, symbol, price, volume, timestamp) ==
    LET bar_time == _get_bar_time(agg, timestamp)
        crossed == /\ ~IsNone(agg.current_bar)
                   /\ ~IsNone(agg.last_bar_time)
                   /\ bar_time # Val(agg.last_bar_time)
        completed_bar == IF crossed THEN agg.current_bar ELSE None
        current_bar ==
            IF crossed \/ IsNone(agg.current_bar)
            THEN MarketBar(symbol, bar_time, price, price, price, price, volume)
            ELSE [Val(agg.current_bar) EXCEPT !.high = Max(@, price),
                                              !.low = Min(@, price),
                                              !.close = price,
                                              !.volume = @ + volume]
    IN [ agg |-> [agg EXCEPT !.bars = IF crossed
                                      THEN AppendBounded(@, Val(completed_bar))
                                      ELSE @,
                             !.current_bar = Some(current_bar),
                             !.last_bar_time = Some(bar_time)],
         completed_bar |-> completed_bar ]

\* handle_trade(trade_data) for the symbol of the aggregator: the trade goes
\* to add_trade and a completed bar to the bar callbacks.  The feed delivers
\* trades in the order of their timestamps.
HandleTrade(price, size, timestamp) ==
    /\ Len(feed) < MaxTrades
    /\ feed # <<>> => timestamp >= feed[Len(feed)].timestamp
    /\ LET r == add_trade(aggregator, FeedSymbol, price, size, timestamp)
       IN /\ aggregator' = r.agg
          /\ completed' = IF IsNone(r.completed_bar) THEN completed
                          ELSE Append(completed, Val(r.completed_bar))
    /\ feed' = Append(feed, Trade(price, size, timestamp))
    /\ UNCHANGED <<riskVars, engineVars, channel, ctlVars, adapterVars,
                   listenerVars, pauseVars, monitorVars>>

\* handle_trade(trade_data) when the feed may deliver a trade late: the
\* timestamp is whatever the payload carries
HandleTradeUnordered(price, size, timestamp) ==
    /\ Len(feed) < MaxLateTrades
    /\ LET r == add_trade(aggregator, FeedSymbol, price, size, timestamp)
       IN /\ aggregator' = r.agg
          /\ completed' = IF IsNone(r.completed_bar) THEN completed
                          ELSE Append(completed, Val(r.completed_bar))
    /\ feed' = Append(feed, Trade(price, size, timestamp))
    /\ UNCHANGED <<riskVars, engineVars, channel, ctlVars, adapterVars,
                   listenerVars, pauseVars, monitorVars>>

(***************************************************************************)
(* Initial state                                                           *)
(***************************************************************************)
\* AlpacaAdapter.__init__ and an aggregator no trade has reached
InitMarketData ==
    /\ alpaca = AlpacaAdapterInit
    /\ aggregator = BarAggregator(MaxTimeframe)
    /\ feed = <<>>
    /\ completed = <<>>

\* TradingEngine.__init__ and ProductionController.__init__
InitEngineAndController ==
    /\ now = 0
    /\ check_result = NoCheck
    /\ approved_this_minute = 0
    /\ trading_enabled = FALSE
    /\ strategies = {}
    /\ strategy_modes = [n \in {} |-> "disabled"]
    /\ positions = NoPositions
    /\ tasks = [t \in 1..MaxTasks |-> IdleTask]
    /\ broker_orders = <<>>
    /\ approved = {}
    /\ next_id = 0
    /\ shadow_log = {}
    /\ pending_orders = {}
    /\ channel = <<>>
    /\ last_command = "none"
    /\ flattened = FALSE
    /\ last_signal = UnrecordedSignal
    /\ state = "initializing"
    /\ audit_log = <<>>
    /\ checklist = LiveTradingChecklist
    /\ resume_timers = 0
    /\ ramp_day = -1
    /\ shadow_monitor = FALSE
    /\ last_call = Unrecorded
    /\ listening = TRUE
    /\ monitors = UntrackedMonitors
    /\ stats_writes = {}
    /\ ramp = UntrackedRamp
    /\ pauses = UntrackedPauses

\* a RiskManager constructed directly with Decimal limits
InitRisk ==
    /\ risk \in {RiskManagerInit(l, 0) : l \in LimitChoices}
    /\ InitEngineAndController
    /\ InitMarketData

\* the RiskManager the engine constructs
Init ==
    /\ risk = RiskManagerInit(EngineLimits, 0)
    /\ InitEngineAndController
    /\ InitMarketData

(***************************************************************************)
(* Direct use of the RiskManager                                           *)
(***************************************************************************)
\* a caller runs check_order_intent(intent, current_positions)
CheckOrderIntent(intent, current_positions) ==
    LET out == check_order_intent(risk, intent, current_positions, now)
    IN /\ approved_this_minute < MaxApprovals
       /\ Len(out.rm.violations) <= MaxViolations
       /\ risk' = out.rm
       /\ check_result' = CheckRecord(check_result, out)
       /\ approved_this_minute' =
              IF out.is_allowed THEN approved_this_minute + 1
              ELSE approved_this_minute
       /\ UNCHANGED <<ioVars, now, engineVars, channel, ctlVars>>

UpdatePnl(daily_pnl, weekly_pnl) ==
    /\ Len(update_pnl(risk, daily_pnl, weekly_pnl).violations) <= MaxViolations
    /\ risk' = update_pnl(risk, daily_pnl, weekly_pnl)
    /\ UNCHANGED <<ioVars, now, check_result, approved_this_minute, engineVars, channel, ctlVars>>

UpdateDailyPnl(pnl) ==
    /\ risk' = update_daily_pnl(risk, pnl)
    /\ UNCHANGED <<ioVars, now, check_result, approved_this_minute, engineVars, channel, ctlVars>>

EmergencyHalt ==
    /\ Len(risk.violations) < MaxViolations
    /\ risk' = emergency_halt(risk)
    /\ UNCHANGED <<ioVars, now, check_result, approved_this_minute, engineVars, channel, ctlVars>>

ResumeTrading ==
    /\ risk' = resume_trading(risk)
    /\ UNCHANGED <<ioVars, now, check_result, approved_this_minute, engineVars, channel, ctlVars>>

ResetDailyPnl ==
    /\ risk' = reset_daily_pnl(risk)
    /\ UNCHANGED <<ioVars, now, check_result, approved_this_minute, engineVars, channel, ctlVars>>

\* the wall clock moves on to a later minute
Tick ==
    /\ \E t \in Times : t > now /\ now' = t
    /\ approved_this_minute' = 0
    /\ UNCHANGED <<ioVars, risk, check_result, engineVars, channel, ctlVars>>

NextRisk ==
    \/ \E i \in IntentChoices, p \in PositionChoices : CheckOrderIntent(i, p)
    \/ \E d \in PnlChoices, w \in WeeklyChoices : UpdatePnl(d, w)
    \/ \E d \in PnlChoices : UpdateDailyPnl(d)
    \/ EmergencyHalt
    \/ ResumeTrading
    \/ ResetDailyPnl
    \/ Tick

SpecRisk == InitRisk /\ [][NextRisk]_vars

NextEngine ==
    \/ \E t \in 1..MaxTasks, i \in IntentChoices, n \in StrategyNames :
          OnMarketBar(t, i, n)
    \/ \E t \in 1..MaxTasks, i \in IntentChoices, h \in PositionChoices :
          ExecuteOrderIntent(t, i, h)
    \/ \E t \in 1..MaxTasks : TaskComplete(t)
    \/ \E h \in PositionChoices : ReconcilePositions(h)
    \/ SnapshotAccount
    \/ \E n \in StrategyNames, m \in StrategyModes : AddStrategy(n, m)
    \/ \E e \in {"true", "false"} : AdminSetTradingEnabled(e)
    \/ HandleCommand

SpecEngine == Init /\ [][NextEngine]_vars

NextController ==
    \/ pause_trading
    \/ _auto_resume
    \/ \E r \in StopReasons : emergency_stop(r)
    \/ \E p \in ProbeChoices : start_shadow_mode(p)
    \/ \E st \in ShadowStats : start_canary_mode(st)
    \/ \E st \in CanaryStats, d \in 1..MaxRampDays : gradual_ramp_up(st, d)
    \/ _schedule_config_update
    \/ \E ok \in BOOLEAN, p \in ProbeChoices, st \in RampStats :
          enable_live_trading(ok, p, st)
    \/ \E e \in {"true", "false"} : AdminSetTradingEnabled(e)
    \/ HandleCommand

SpecController == Init /\ [][NextController]_vars

\* the controller's public methods with every call recorded in last_call;
\* the commands they publish stay on the channel
InitRollout ==
    /\ risk = RiskManagerInit(EngineLimits, 0)
    /\ now = 0
    /\ check_result = NoCheck
    /\ approved_this_minute = 0
    /\ trading_enabled = FALSE
    /\ strategies = {}
    /\ strategy_modes = [n \in {} |-> "disabled"]
    /\ positions = NoPositions
    /\ tasks = [t \in 1..MaxTasks |-> IdleTask]
    /\ broker_orders = <<>>
    /\ approved = {}
    /\ next_id = 0
    /\ shadow_log = {}
    /\ pending_orders = {}
    /\ channel = <<>>
    /\ last_command = "none"
    /\ flattened = FALSE
    /\ last_signal = UnrecordedSignal
    /\ state = "initializing"
    /\ audit_log = <<>>
    /\ checklist = LiveTradingChecklist
    /\ resume_timers = 0
    /\ ramp_day = -1
    /\ shadow_monitor = FALSE
    /\ last_call = NoCall
    /\ listening = TRUE
    /\ monitors = UntrackedMonitors
    /\ stats_writes = {}
    /\ ramp = UntrackedRamp
    /\ pauses = UntrackedPauses
    /\ InitMarketData

NextRollout ==
    \/ pause_trading
    \/ _auto_resume
    \/ \E r \in StopReasons : emergency_stop(r)
    \/ \E p \in ProbeChoices : start_shadow_mode(p)
    \/ \E st \in ShadowStats : start_canary_mode(st)
    \/ \E st \in CanaryStats, d \in 1..MaxRampDays : gradual_ramp_up(st, d)
    \/ _schedule_config_update
    \/ \E ok \in BOOLEAN, p \in ProbeChoices, st \in RampStats :
          enable_live_trading(ok, p, st)

SpecRollout == InitRollout /\ [][NextRollout]_vars

\* the engine's signal pipeline with every signal taken up recorded in
\* last_signal; the admin API switches trading on and the broker reports a
\* losing position
InitModes ==
    /\ risk = RiskManagerInit(EngineLimits, 0)
    /\ now = 0
    /\ check_result = NoCheck
    /\ approved_this_minute = 0
    /\ trading_enabled = FALSE
    /\ strategies = {}
    /\ strategy_modes = [n \in {} |-> "disabled"]
    /\ positions = NoPositions
    /\ tasks = [t \in 1..MaxTasks |-> IdleTask]
    /\ broker_orders = <<>>
    /\ approved = {}
    /\ next_id = 0
    /\ shadow_log = {}
    /\ pending_orders = {}
    /\ channel = <<>>
    /\ last_command = "none"
    /\ flattened = FALSE
    /\ last_signal = NoSignal
    /\ state = "initializing"
    /\ audit_log = <<>>
    /\ checklist = LiveTradingChecklist
    /\ resume_timers = 0
    /\ ramp_day = -1
    /\ shadow_monitor = FALSE
    /\ last_call = Unrecorded
    /\ listening = TRUE
    /\ monitors = UntrackedMonitors
    /\ stats_writes = {}
    /\ ramp = UntrackedRamp
    /\ pauses = UntrackedPauses
    /\ InitMarketData

NextModes ==
    \/ \E t \in 1..MaxTasks, i \in IntentChoices, n \in StrategyNames :
          OnMarketBar(t, i, n)
    \/ \E t \in 1..MaxTasks : TaskComplete(t)
    \/ \E h \in PositionChoices \ {NoPositions} : ReconcilePositions(h)
    \/ SnapshotAccount
    \/ \E n \in StrategyNames, m \in StrategyModes : AddStrategy(n, m)
    \/ AdminSetTradingEnabled("true")
    \/ HandleCommand

SpecModes == InitModes /\ [][NextModes]_vars

\* place_order called directly, as the engine and the tests call it
NextBroker ==
    \E i \in IntentChoices, n \in StrategyNames, c \in ClientOrderIds,
       t \in Instants, ok \in BOOLEAN : PlaceOrder(i, n, c, t, ok)

SpecBroker == Init /\ [][NextBroker]_vars

\* one (symbol, timeframe) aggregator fed by handle_trade
InitBars ==
    /\ risk = RiskManagerInit(EngineLimits, 0)
    /\ InitEngineAndController
    /\ alpaca = AlpacaAdapterInit
    /\ aggregator \in {BarAggregator(tf) : tf \in Timeframes}
    /\ feed = <<>>
    /\ completed = <<>>

NextBars ==
    \E p \in PriceChoices, s \in SizeChoices, ts \in 0..MaxTime :
       HandleTrade(p, s, ts)

SpecBars == InitBars /\ [][NextBars]_vars

\* the same aggregator fed trades in any order of their timestamps
NextBarsUnordered ==
    \E p \in PriceChoices \ {3}, ts \in 0..MaxTime :
       HandleTradeUnordered(p, 1, ts)

SpecBarsUnordered == InitBars /\ [][NextBarsUnordered]_vars

\* the controller with its monitor tasks followed step by step
InitMonitors ==
    /\ risk = RiskManagerInit(EngineLimits, 0)
    /\ now = 0
    /\ check_result = NoCheck
    /\ approved_this_minute = 0
    /\ trading_enabled = FALSE
    /\ strategies = {}
    /\ strategy_modes = [n \in {} |-> "disabled"]
    /\ positions = NoPositions
    /\ tasks = [t \in 1..MaxTasks |-> IdleTask]
    /\ broker_orders = <<>>
    /\ approved = {}
    /\ next_id = 0
    /\ shadow_log = {}
    /\ pending_orders = {}
    /\ channel = <<>>
    /\ last_command = "none"
    /\ flattened = FALSE
    /\ last_signal = UnrecordedSignal
    /\ state = "initializing"
    /\ audit_log = <<>>
    /\ checklist = LiveTradingChecklist
    /\ resume_timers = 0
    /\ ramp_day = -1
    /\ shadow_monitor = FALSE
    /\ last_call = NoCall
    /\ listening = TRUE
    /\ monitors = IdleMonitors
    /\ stats_writes = {}
    /\ ramp = NoRamp
    /\ pauses = NoPauses
    /\ InitMarketData

NextMonitors ==
    \/ \E p \in ProbeChoices : start_shadow_mode(p)
    \/ \E st \in ShadowStats : start_canary_mode(st)
    \/ \E st \in CanaryStats, d \in 1..MaxFollowedRampDays :
          gradual_ramp_up(st, d)
    \/ _schedule_config_update
    \/ \E r \in StopReasons : emergency_stop(r)
    \/ pause_trading
    \/ _auto_resume
    \/ \E k \in MonitorKinds : MonitorTestsState(k)
    \/ \E k \in MonitorKinds, e \in BOOLEAN : MonitorWritesStatistics(k, e)

SpecMonitors == InitMonitors /\ [][NextMonitors]_vars

\* a strategy name no add_strategy call has registered
UnregisteredNames == {"ghost"}

\* the admin API and other publishers on one side, the listener on the other
NextCommands ==
    \/ \E n \in StrategyNames : AddStrategy(n, "enabled")
    \/ \E n \in StrategyNames \cup UnregisteredNames,
          m \in {"shadow", "disabled"} : AdminToggleStrategy(n, m)
    \/ \E p \in {0, 500} : AdminUpdateConfig(2, p)
    \/ AdminSetTradingEnabled("true")
    \/ AdminFlattenAll
    \/ \E m \in RawMessages : DeliverMessage(m)
    \/ HandleCommand

SpecCommands == Init /\ [][NextCommands]_vars

\* a trading_enabled command that carries no enabled field, and the
\* controller's commands that are meant to start trading
SwitchMessages ==
    RawMessages \cup { Msg("trading_enabled", "", "", "absent", ""),
                       Command("resume_trading"),
                       Command("enable_live_trading") }

\* the engine's kill switch: every publisher of commands, the periodic
\* tasks, registration and mode changes
NextSwitch ==
    \/ \E e \in {"true", "false"} : AdminSetTradingEnabled(e)
    \/ \E m \in SwitchMessages : DeliverMessage(m)
    \/ HandleCommand
    \/ \E n \in StrategyNames, m \in {"shadow", "enabled"} : AddStrategy(n, m)
    \/ \E n \in StrategyNames : AdminToggleStrategy(n, "enabled")
    \/ AdminFlattenAll
    \/ \E h \in PositionChoices : ReconcilePositions(h)
    \/ SnapshotAccount

SpecSwitch == Init /\ [][NextSwitch]_vars

\* the whole platform: engine, controller, admin API and the clock
Next ==
    \/ NextEngine
    \/ NextController
    \/ \E n \in StrategyNames, m \in StrategyModes : AdminToggleStrategy(n, m)
    \/ AdminFlattenAll
    \/ \E d \in {0, 2}, p \in {0, 500} : AdminUpdateConfig(d, p)
    \/ \E m \in RawMessages : DeliverMessage(m)
    \/ \E k \in MonitorKinds : MonitorTestsState(k)
    \/ \E k \in MonitorKinds, e \in BOOLEAN : MonitorWritesStatistics(k, e)
    \/ Tick
    \/ NextBroker
    \/ NextBars
    \/ NextBarsUnordered

Spec == Init /\ [][Next]_vars

(***************************************************************************)
(* Properties of the RiskManager                                           *)
(***************************************************************************)
\* a step that is a check_order_intent call
IsCheckCall == check_result'.call # check_result.call

\* C1: once halted, every check_order_intent call is rejected with the halt
\* reason, whatever the intent and the positions, and the halted flag is
\* cleared by resume_trading only.
HaltedRejectsEveryIntent ==
    /\ [][ (IsCheckCall /\ risk.is_halted)
             => /\ ~check_result'.is_allowed
                /\ ~check_result'.raised
                /\ check_result'.reason = <<"Trading halted", risk.halt_reason>>
                /\ risk'.is_halted ]_vars
    /\ [][ (risk.is_halted /\ ~risk'.is_halted)
             => risk' = resume_trading(risk) ]_vars

\* C1 witness: a check made after emergency_halt was turned down as halted
HaltedCheckSeen ==
    /\ risk.is_halted
    /\ check_result.reason = <<"Trading halted", "Emergency halt activated">>

\* C2: a rejected check_order_intent call raises neither daily_trades nor
\* orders_this_minute; a counter rises only in a call that returns allowed,
\* and then by exactly one (after the per-minute reset, if the minute changed).
CountersMoveOnlyOnApproval ==
    [][ /\ (IsCheckCall /\ ~check_result'.is_allowed)
            => /\ risk'.daily_trades = risk.daily_trades
               /\ risk'.orders_this_minute <= risk.orders_this_minute
        /\ (\/ risk'.daily_trades > risk.daily_trades
            \/ risk'.orders_this_minute > risk.orders_this_minute)
            => /\ IsCheckCall
               /\ check_result'.is_allowed
               /\ risk'.daily_trades = risk.daily_trades + 1
               /\ risk'.orders_this_minute <= risk.orders_this_minute + 1
        /\ (IsCheckCall /\ check_result'.is_allowed)
            => /\ risk'.daily_trades = risk.daily_trades + 1
               /\ risk'.orders_this_minute =
                      1 + (IF now % MinutesPerHour # risk.last_order_minute
                           THEN 0 ELSE risk.orders_this_minute) ]_vars

\* C2 witness: a call was rejected by the rate limit after two approvals
RateLimitRejectionSeen ==
    /\ check_result.reason = <<"Rate limit">>
    /\ risk.daily_trades = 2
    /\ risk.orders_this_minute = 2

\* C6: daily_trades never exceeds max_daily_trades and no more than
\* max_orders_per_minute intents are approved within one wall-clock minute.
GlobalCountersRespectLimits ==
    /\ risk.daily_trades <= risk.limits.max_daily_trades
    /\ approved_this_minute <= risk.limits.max_orders_per_minute


(***************************************************************************)
(* TradingEngine: the gate between a signal and an order                   *)
(***************************************************************************)
\* C3: every order handed to AlpacaAdapter.place_order belongs to an intent
\* on which check_order_intent was called before and returned allowed
EveryOrderWasApproved ==
    \A i \in 1..Len(broker_orders) : broker_orders[i].id \in approved

\* both entry points have submitted an order
OrdersFromBothEntryPoints ==
    /\ \E i \in 1..Len(broker_orders) : broker_orders[i].via = "signal"
    /\ \E i \in 1..Len(broker_orders) : broker_orders[i].via = "execute"

\* C4: while trading_enabled is false no step calls check_order_intent,
\* moves a RiskManager counter or submits an order
DisabledGateStopsEveryIntent ==
    [][ ~trading_enabled =>
          /\ ~IsCheckCall
          /\ risk'.daily_trades = risk.daily_trades
          /\ risk'.orders_this_minute = risk.orders_this_minute
          /\ broker_orders' = broker_orders ]_vars

\* C5: two signals for one symbol that are in flight together have not both
\* passed the risk check and been submitted against the same snapshot of
\* the position cache
SameSymbolSignalsSerialized ==
    \A t, u \in 1..MaxTasks :
        (/\ t # u
         /\ tasks[t].pc = "record_order" /\ tasks[u].pc = "record_order"
         /\ tasks[t].symbol = tasks[u].symbol)
        => ~(tasks[t].same_snapshot /\ tasks[u].same_snapshot)

(***************************************************************************)
(* ProductionController: emergency stop and the rollout phases             *)
(***************************************************************************)
\* C7: once the engine's handler has taken the EMERGENCY_STOP command,
\* trading_enabled is false
EmergencyStopDisablesTrading ==
    last_command = "EMERGENCY_STOP" => ~trading_enabled

\* a step that appends an EMERGENCY_STOP entry to the audit log
IsEmergencyStopCall ==
    /\ Len(audit_log') = Len(audit_log) + 1
    /\ audit_log'[Len(audit_log')].action = "EMERGENCY_STOP"

\* the command names published by a step, in order
PublishedNames ==
    [i \in 1..(Len(channel') - Len(channel)) |->
        channel'[Len(channel) + i].command]

\* C8: emergency_stop(reason) can be called in every SystemState; it sets
\* the state to emergency_stop, publishes EMERGENCY_STOP, then
\* cancel_all_orders, then flatten_all_positions exactly when the reason
\* carries a flatten directive, and appends one audit entry
EmergencyStopFromEveryState ==
    /\ [][ IsEmergencyStopCall =>
            /\ state' = "emergency_stop"
            /\ SubSeq(channel', 1, Len(channel)) = channel
            /\ PublishedNames =
                 IF HasFlattenDirective(audit_log'[Len(audit_log')].reason)
                 THEN <<"EMERGENCY_STOP", "cancel_all_orders",
                        "flatten_all_positions">>
                 ELSE <<"EMERGENCY_STOP", "cancel_all_orders">>
            /\ channel'[Len(channel) + 1].reason
                 = audit_log'[Len(audit_log')].reason
            /\ SubSeq(audit_log', 1, Len(audit_log)) = audit_log ]_vars
    /\ [](\A r \in StopReasons :
            (Len(audit_log) < MaxAudit /\ Len(channel) = 0)
                => ENABLED emergency_stop(r))

\* an emergency stop with a flatten directive, called while paused
EmergencyStopWhilePausedSeen ==
    /\ state = "emergency_stop"
    /\ resume_timers > 0
    /\ Len(channel) = 3
    /\ channel[1].command = "EMERGENCY_STOP"
    /\ channel[3].command = "flatten_all_positions"
    /\ Len(audit_log) = 1

RolloutPhase ==
    [ initializing |-> 0, testing |-> 1, shadow |-> 1, canary |-> 2,
      ramping |-> 3, live |-> 4 ]

\* C9: between rollout phases SystemState only moves forward along
\* initializing, testing/shadow, canary, ramping, live
RolloutOnlyMovesForward ==
    [][ (state \in DOMAIN RolloutPhase /\ state' \in DOMAIN RolloutPhase)
          => RolloutPhase[state'] >= RolloutPhase[state] ]_vars

\* C10: once SystemState is emergency_stop, no operation of the controller
\* moves it to another state
EmergencyStopIsKept ==
    [][ state = "emergency_stop" => state' = "emergency_stop" ]_vars

(***************************************************************************)
(* ProductionController: pause, and the failure paths of the rollout       *)
(***************************************************************************)
\* C11: when the sleep of a scheduled resume ends, the state becomes live
\* and resume_trading is published if the state is paused at that instant;
\* in any other state (emergency_stop included) the state stays and
\* nothing is published
ScheduledResumeOnlyWhilePaused ==
    [][ resume_timers' < resume_timers =>
          IF state = "paused"
          THEN state' = "live" /\ PublishedNames = <<"resume_trading">>
          ELSE state' = state /\ channel' = channel ]_vars

\* an emergency stop during the pause, and the scheduled resume has ended
\* without a resume_trading command
ResumeAfterEmergencyStopSeen ==
    /\ state = "emergency_stop"
    /\ resume_timers = 0
    /\ last_command = "pause_trading"
    /\ Len(channel) = 2
    /\ channel[1].command = "EMERGENCY_STOP"
    /\ channel[2].command = "cancel_all_orders"

\* a step that is a call of the controller method `op`
IsCall(op) == last_call'.n # last_call.n /\ last_call'.op = op

\* C12: enable_live_trading sets live and publishes enable_live_trading
\* exactly when the code is right, the pre-flight check of the call passes
\* and ramp statistics exist; otherwise it returns failure and leaves state,
\* audit log and channel alone; a failed call does not block the next one
EnableLiveOnlyWhenAllHold ==
    /\ [][ IsCall("enable_live_trading") =>
            IF /\ last_call'.input[1]
               /\ all_passed(checklist')
               /\ last_call'.input[3] = "present"
            THEN /\ last_call'.ok
                 /\ state' = "live"
                 /\ PublishedNames = <<"enable_live_trading">>
            ELSE /\ ~last_call'.ok
                 /\ state' = state
                 /\ audit_log' = audit_log
                 /\ channel' = channel ]_vars
    /\ []((/\ last_call.op = "enable_live_trading" /\ ~last_call.ok
           /\ Room(1) /\ Len(audit_log) < MaxAudit)
          => ENABLED enable_live_trading(TRUE, "ok", "present"))

\* a wrong confirmation code was refused while ramping
BadConfirmationRefusedSeen ==
    /\ last_call.op = "enable_live_trading"
    /\ last_call.input = <<FALSE, "ok", "present">>
    /\ ~last_call.ok
    /\ state = "ramping"

\* C13: start_shadow_mode moves to shadow, publishes set_mode(shadow) and
\* starts the shadow monitor if the pre-flight check it runs passes; if not
\* it returns failure, the state stays, nothing is published and no monitor
\* is started
ShadowStartsOnlyAfterPreflight ==
    [][ IsCall("start_shadow_mode") =>
          IF all_passed(checklist')
          THEN /\ last_call'.ok
               /\ state' = "shadow"
               /\ PublishedNames = <<"set_mode">>
               /\ channel'[Len(channel')].mode = "shadow"
               /\ shadow_monitor'
          ELSE /\ ~last_call'.ok
               /\ state' = state
               /\ channel' = channel
               /\ shadow_monitor' = shadow_monitor ]_vars

\* start_shadow_mode failed with every probed key healthy; the state is
\* still canary
ShadowRefusedSeen ==
    /\ last_call.op = "start_shadow_mode"
    /\ last_call.input = <<"ok">>
    /\ ~last_call.ok
    /\ state = "canary"

\* C14: gradual_ramp_up with canary statistics missing or below 80 percent
\* returns failure, keeps the state, schedules nothing and publishes nothing
RampUpRefusedOnBadCanary ==
    [][ (IsCall("gradual_ramp_up") /\ last_call'.input[1] # "80pct") =>
          /\ ~last_call'.ok
          /\ state' = state
          /\ ramp_day' = ramp_day
          /\ channel' = channel ]_vars

\* a ramp-up refused for a low success rate while in canary
RampUpRefusedSeen ==
    /\ last_call.op = "gradual_ramp_up"
    /\ last_call.input = <<"below_80pct">>
    /\ ~last_call.ok
    /\ state = "canary"
    /\ ramp_day = -1
(***************************************************************************)
(* Strategy modes                                                          *)
(***************************************************************************)
\* the step is _process_strategy_signal taking up a signal
IsSignalTaken == last_signal'.n # last_signal.n

\* the step is a signal of a strategy in `mode` that check_order_intent
\* approved
IsApprovedSignal(mode) ==
    /\ IsSignalTaken
    /\ last_signal'.mode = mode
    /\ IsCheckCall
    /\ check_result'.is_allowed

\* the order place_order receives for the signal taken up in this step
SubmittedWith(qty) ==
    broker_orders' = Append(broker_orders,
                            [ id |-> next_id', symbol |-> last_signal'.signal[1].symbol,
                              qty |-> qty, via |-> "signal" ])

\* quantity times reference price is within max_single_order_value; the
\* reference price of an intent without a limit price is 999999
WithinOrderValue(intent, qty) ==
    qty * (IF intent.limit_price # 0 THEN intent.limit_price
           ELSE NoLimitReferencePrice) <= MaxSingleOrderValue

\* the order types place_order builds a request for
IsSupportedOrder(intent) ==
    \/ intent.order_type = "market"
    \/ intent.order_type = "limit" /\ intent.limit_price # 0

GatewayLetsThrough(intent, qty) ==
    WithinOrderValue(intent, qty) /\ IsSupportedOrder(intent)

ShadowSignalsWithheldAfterApproval ==
    [][/\ (IsSignalTaken /\ last_signal'.mode = "shadow")
            => broker_orders' = broker_orders
       /\ shadow_log' # shadow_log
            => /\ IsApprovedSignal("shadow")
               /\ shadow_log' = shadow_log \cup {next_id'}]_vars

\* one shadow signal was approved and logged, the next one was rejected by
\* check_order_intent and left out of the log
RejectedShadowSignalSeen ==
    /\ last_signal.mode = "shadow"
    /\ next_id = 2
    /\ shadow_log = {1}
    /\ ~check_result.is_allowed /\ ~check_result.raised
    /\ check_result.reason # <<"None">>

IsPlaceCall == alpaca'.result.n # alpaca.result.n

\* C18: a place_order call whose client order id is already in
\* pending_orders returns the status "duplicate" and creates no broker
\* order, and no two broker orders carry the same client order id.
DuplicateIdSubmitsNothing ==
    /\ [][(/\ IsPlaceCall
            /\ alpaca'.result.client_order_id \in DOMAIN alpaca.pending_orders)
             => /\ alpaca'.result.status = "duplicate"
                /\ alpaca'.orders = alpaca.orders
                /\ alpaca'.pending_orders = alpaca.pending_orders]_vars
    /\ [](\A i, j \in 1..Len(alpaca.orders) :
             alpaca.orders[i] = alpaca.orders[j] => i = j)

\* a second call with the id of an order already placed came back as a
\* duplicate
DuplicateResultSeen ==
    /\ alpaca.result.status = "duplicate"
    /\ \E i \in 1..Len(alpaca.orders) :
          alpaca.orders[i] = alpaca.result.client_order_id

(***************************************************************************)
(* Properties of the BarAggregator                                         *)
(***************************************************************************)
\* floor(ts / timeframe) * timeframe
BucketStart(ts) == ts - (ts % aggregator.timeframe)

StrictlyIncreasing ==
    \A k \in 1..(Len(feed) - 1) : feed[k].timestamp < feed[k + 1].timestamp

\* the buckets at least one trade of the feed falls in
OccupiedBuckets == {BucketStart(feed[k].timestamp) : k \in 1..Len(feed)}

\* the whole buckets from the first trade's bucket up to, not including,
\* the last trade's bucket
BucketsSpanned ==
    (BucketStart(feed[Len(feed)].timestamp) - BucketStart(feed[1].timestamp))
        \div aggregator.timeframe

\* C19 (as stated): trades with strictly increasing timestamps that span N
\* whole buckets yield exactly N completed bars, whether or not the bucket of
\* the last trade is counted among the N
EmissionsEqualBucketsSpanned ==
    (feed # <<>> /\ StrictlyIncreasing)
        => \/ Len(completed) = BucketsSpanned
           \/ Len(completed) = BucketsSpanned + 1

\* C19 (amended): add_trade has returned exactly one completed bar for every
\* bucket holding a trade except the bucket of the latest trade, whose bar is
\* still open; a bucket without trades yields no bar.  Trades in every one of
\* N + 1 consecutive buckets therefore yield N bars.
EmissionsEqualClosedOccupiedBuckets ==
    /\ feed = <<>> => completed = <<>>
    /\ feed # <<>> => Len(completed) = Cardinality(OccupiedBuckets) - 1
    /\ (feed # <<>> /\ Cardinality(OccupiedBuckets) = BucketsSpanned + 1)
          => Len(completed) = BucketsSpanned
    /\ completed = aggregator.bars

\* three trades with strictly increasing timestamps in three consecutive
\* buckets completed two bars
TwoBarsFromThreeBucketsSeen ==
    /\ Len(feed) = MaxTrades
    /\ StrictlyIncreasing
    /\ Cardinality(OccupiedBuckets) = Len(feed)
    /\ BucketsSpanned = Len(feed) - 1
    /\ Len(completed) = Len(feed) - 1

\* the trades of the feed that fall in the bucket starting at `start`
TradesIn(start) ==
    {k \in 1..Len(feed) : BucketStart(feed[k].timestamp) = start}

\* C20: every completed bar carries the start of its bucket, the price of
\* the first trade of the bucket as open, of the last as close, the highest
\* and the lowest price, and the summed sizes of exactly the trades whose
\* timestamps fall in the bucket; the trade that crossed the boundary is not
\* among them.  Bars come out in the order of their buckets.
CompletedBarsMatchTheirBucket ==
    /\ \A i \in 1..Len(completed) :
          LET bar == completed[i]
              ks == TradesIn(bar.timestamp)
              first == CHOOSE k \in ks : \A l \in ks : k <= l
              last == CHOOSE k \in ks : \A l \in ks : k >= l
          IN /\ ks # {}
             /\ bar.timestamp % aggregator.timeframe = 0
             /\ bar.symbol = FeedSymbol
             /\ bar.open = feed[first].price
             /\ bar.close = feed[last].price
             /\ \E k \in ks : bar.high = feed[k].price
             /\ \E k \in ks : bar.low = feed[k].price
             /\ \A k \in ks : bar.low <= feed[k].price /\ feed[k].price <= bar.high
             /\ bar.volume = SumOver([k \in ks |-> feed[k].size], ks)
             /\ last < Len(feed)
    /\ \A i, j \in 1..Len(completed) :
          i < j => completed[i].timestamp < completed[j].timestamp

\* a completed bar built from several trades at different prices
BarOfSeveralTradesSeen ==
    \E i \in 1..Len(completed) :
       /\ Cardinality(TradesIn(completed[i].timestamp)) > 1
       /\ completed[i].open # completed[i].close
       /\ completed[i].volume > 2

\* C21: whatever the order of the trades' timestamps, no bucket is emitted
\* as a completed bar more than once
EachBucketEmittedAtMostOnce ==
    \A i, j \in 1..Len(completed) :
       completed[i].timestamp = completed[j].timestamp => i = j

(***************************************************************************)
(* Properties of the RiskManager: loss limits and halts                    *)
(***************************************************************************)
\* the daily loss is at or beyond daily_loss_limit, or the weekly loss at or
\* beyond a configured weekly_loss_limit
LossLimitBreached(rm) ==
    \/ rm.daily_pnl <= -rm.limits.daily_loss_limit
    \/ /\ rm.limits.weekly_loss_limit # 0
       /\ rm.weekly_pnl <= -rm.limits.weekly_loss_limit

\* C22: a check_order_intent call made while a loss limit is breached is
\* rejected and leaves the manager halted, also when resume_trading cleared
\* the halt just before
BreachedCheckRejectsAndHalts ==
    [][(IsCheckCall /\ LossLimitBreached(risk))
         => /\ ~check_result'.is_allowed
            /\ ~check_result'.raised
            /\ risk'.is_halted]_vars

\* after a halt and resume_trading, the next check halted the manager again
\* on the daily loss limit
HaltedAgainAfterResumeSeen ==
    /\ Len(risk.violations) = 2
    /\ risk.is_halted
    /\ risk.halt_reason = "Daily loss limit exceeded"
    /\ check_result.reason = <<"Daily loss limit exceeded">>

\* C23: a P&L update that leaves the daily loss at or beyond
\* daily_loss_limit leaves the manager halted
BreachingUpdateHalts ==
    [][(/\ risk'.daily_pnl # risk.daily_pnl
        /\ risk'.daily_pnl <= -risk'.limits.daily_loss_limit)
         => risk'.is_halted]_vars

\* C24: risk_level is the bucket of daily_pnl / daily_loss_limit as of the
\* last P&L update (a non-zero daily_pnl is the value that update left), and
\* differs from it only by being critical while trading is halted
RiskLevelIsBucketOfLastUpdate ==
    risk.daily_pnl # 0
        => \/ risk.risk_level = _update_risk_level(risk).risk_level
           \/ risk.is_halted /\ risk.risk_level = "critical"

LossLimitReasons ==
    {"Daily loss limit exceeded", "Weekly loss limit exceeded"}

\* C25: while the manager is halted for a loss-limit breach, a step that
\* leaves the P&L as it was (a repeated update with the same breach) appends
\* no further entry for that breach to the violation history
AutoHaltAppendsOnce ==
    [][(/\ risk.is_halted
        /\ risk.halt_reason \in LossLimitReasons
        /\ risk'.daily_pnl = risk.daily_pnl
        /\ risk'.weekly_pnl = risk.weekly_pnl)
         => risk'.violations # Append(risk.violations, risk.halt_reason)]_vars

\* the value of the position in the intent's symbol after the order
\* (lines 91-94); the symbol is among the positions
ResultingPositionValue(intent, current_positions) ==
    LET current_pos == current_positions[intent.symbol]
        new_qty == IF intent.side = "buy" THEN current_pos.qty + intent.qty
                   ELSE current_pos.qty - intent.qty
        price == IF intent.limit_price # 0 THEN intent.limit_price
                 ELSE current_pos.current_price
    IN Abs(new_qty * price)

\* the reason of the first rule, in the order halted, daily loss, weekly
\* loss, single-order value, position size, per-minute rate, daily trade
\* count, sector concentration, portfolio heat, that the intent violates
FirstViolatedRule(rm, intent, current_positions, minute) ==
    LET orders == IF minute % MinutesPerHour # rm.last_order_minute THEN 0
                  ELSE rm.orders_this_minute
    IN IF rm.is_halted THEN <<"Trading halted", rm.halt_reason>>
       ELSE IF rm.daily_pnl <= -rm.limits.daily_loss_limit
       THEN <<"Daily loss limit exceeded">>
       ELSE IF rm.limits.weekly_loss_limit # 0
               /\ rm.weekly_pnl <= -rm.limits.weekly_loss_limit
       THEN <<"Weekly loss limit exceeded">>
       ELSE IF rm.limits.max_single_order_value # 0
               /\ intent.qty * intent.limit_price
                      > rm.limits.max_single_order_value
       THEN <<"Order value exceeds max">>
       ELSE IF intent.symbol \in DOMAIN current_positions
               /\ ResultingPositionValue(intent, current_positions)
                      > rm.limits.max_position_size
       THEN <<"Position size would exceed max">>
       ELSE IF orders >= rm.limits.max_orders_per_minute
       THEN <<"Rate limit">>
       ELSE IF rm.daily_trades >= rm.limits.max_daily_trades
       THEN <<"Daily trade limit reached">>
       ELSE IF ~_check_correlation(rm, intent, current_positions)
       THEN <<"Position correlation too high">>
       ELSE IF _calculate_portfolio_heat(rm, current_positions)
                  > rm.limits.max_portfolio_heat
       THEN <<"Portfolio heat exceeds max">>
       ELSE <<"None">>

\* C26: in every state the manager can be in, for every intent and every
\* position set, a check_order_intent call whose intent violates a rule
\* returns rejected with the reason of the first rule violated in the fixed
\* order
RejectionNamesFirstViolatedRule ==
    \A intent \in IntentChoices, current_positions \in PositionChoices :
       LET first == FirstViolatedRule(risk, intent, current_positions, now)
           out == check_order_intent(risk, intent, current_positions, now)
       IN first # <<"None">>
             => /\ ~out.raised
                /\ ~out.is_allowed
                /\ out.reason = first

\* the position value after the order, a symbol without a position counting
\* as a position of quantity 0
PositionValueAfter(intent, current_positions) ==
    IF intent.symbol \in DOMAIN current_positions
    THEN ResultingPositionValue(intent, current_positions)
    ELSE intent.qty * intent.limit_price

\* C27: check_order_intent rejects every intent for a symbol without a
\* position whose resulting position value exceeds max_position_size
OversizedNewPositionIsRejected ==
    \A intent \in IntentChoices :
       PositionValueAfter(intent, NoPositions) > risk.limits.max_position_size
          => ~check_order_intent(risk, intent, NoPositions, now).is_allowed

(***************************************************************************)
(* The engine's command listener                                           *)
(***************************************************************************)
\* a step in which the listener takes the first message of the channel
IsHandled == channel # <<>> /\ channel' = Tail(channel)

RiskLimitsFields ==
    {"daily_loss_limit", "max_position_size", "max_daily_trades"}

\* C28: a handled config_update sets every RiskLimits field its payload
\* names to the payload's value and leaves the other fields as they were
ConfigUpdateSetsEveryNamedField ==
    [][(IsHandled /\ Head(channel).command = "config_update")
         => /\ \A f \in RiskLimitsFields :
                 risk'.limits[f] = IF Head(channel)[f] # 0
                                   THEN Head(channel)[f]
                                   ELSE risk.limits[f]
            /\ \A f \in (DOMAIN risk.limits) \ RiskLimitsFields :
                 risk'.limits[f] = risk.limits[f]]_vars

\* C29: every strategy that has a mode is registered
ModesOnlyForRegisteredStrategies ==
    DOMAIN strategy_modes \subseteq strategies

\* the command names _handle_command has a branch for
KnownCommands ==
    {"flatten_all", "trading_enabled", "strategy_update", "config_update"}

\* data that is not JSON, a command name without a branch, or a
\* strategy_update whose status is no StrategyMode
IsMalformed(message) ==
    \/ ~IsValidJson(message)
    \/ message.command \notin KnownCommands
    \/ /\ message.command = "strategy_update"
       /\ message.status \notin StrategyModes

\* C30: handling an unrecognized or malformed command changes no engine
\* state; whatever was handled before, the listener takes the next message
\* of the channel, and a trading_enabled or strategy_update command it takes
\* is applied
CommandConsumerIsTotal ==
    /\ [][(IsHandled /\ IsMalformed(Head(channel)))
            => UNCHANGED <<risk, trading_enabled, strategies, strategy_modes,
                           positions, flattened, pending_orders,
                           broker_orders>>]_vars
    /\ [](channel # <<>> => ENABLED HandleCommand)
    /\ [][(IsHandled /\ Head(channel).command = "trading_enabled")
            => trading_enabled' = (Head(channel).enabled = "true")]_vars
    /\ [][(IsHandled /\ Head(channel).command = "strategy_update"
                     /\ ~IsMalformed(Head(channel)))
            => strategy_modes'[Head(channel).strategy]
                  = Head(channel).status]_vars

\* data that is not JSON was handled, nothing has changed, and a valid
\* command is waiting for the listener
ValidCommandAfterMalformedSeen ==
    /\ last_command = NotJson.command
    /\ ~trading_enabled
    /\ strategy_modes = [n \in {} |-> "disabled"]
    /\ channel = <<Msg("trading_enabled", "", "", "true", "")>>

(***************************************************************************)
(* The controller's commands at the engine                                 *)
(***************************************************************************)
\* C31: a command of the controller that the listener takes has its effect
\* on the engine: resume_trading and enable_live_trading switch trading on,
\* EMERGENCY_STOP and pause_trading switch it off, flatten_all_positions
\* closes the positions
ControllerCommandsTakeEffect ==
    [][IsHandled =>
         /\ Head(channel).command \in {"resume_trading", "enable_live_trading"}
               => trading_enabled'
         /\ Head(channel).command \in {"EMERGENCY_STOP", "pause_trading"}
               => ~trading_enabled'
         /\ Head(channel).command = "flatten_all_positions"
               => flattened']_vars

(***************************************************************************)
(* The controller's statistics monitors                                    *)
(***************************************************************************)
\* C32: shadow:statistics is written only while the state is shadow and
\* canary:statistics only while the state is canary
StatisticsWrittenInOwningState ==
    \A w \in stats_writes : w[2] = w[1]

\* C33: start_canary_mode succeeds only on statistics of 24 hours that the
\* shadow monitor has written while the state was shadow
CanaryStartsOnMonitoredShadowHours ==
    [][(IsCall("start_canary_mode") /\ last_call'.ok)
         => /\ <<"shadow", "shadow">> \in stats_writes
            /\ \E intents \in 0..MaxSignals :
                  ReadShadowStatistics(shadow_statistics(intents))
                     = last_call'.input[1]]_vars

\* C34: a gradual_ramp_up call that has returned has not slept through any
\* ramp delay
RampUpReturnsWithoutWaiting ==
    ramp.returned => ramp.waited = 0

(***************************************************************************)
(* ProductionController: the pre-flight check                              *)
(***************************************************************************)
\* C35: a pre-flight run that finds none of the keys it reads reports the
\* items it derives from them as failed, whatever an earlier run found
PreflightNeverCarriesOver ==
    [][(IsCall("start_shadow_mode") /\ last_call'.input[1] = "absent")
         => \A i \in ConditionalItems : ~checklist'[i]]_vars

\* C39: with every status it reads healthy the pre-flight check passes, and
\* start_shadow_mode moves the state to shadow
HealthyPreflightPasses ==
    [][(IsCall("start_shadow_mode") /\ last_call'.input[1] = "ok")
         => /\ all_passed(checklist')
            /\ last_call'.ok
            /\ state' = "shadow"]_vars

(***************************************************************************)
(* RiskManager: the per-minute counter across hours                        *)
(***************************************************************************)
\* C36: a check made in a wall-clock minute in which nothing has been
\* approved yet is not rejected by the rate limit
RateLimitCountsThisMinuteOnly ==
    [][(IsCheckCall /\ approved_this_minute = 0)
         => check_result'.reason # <<"Rate limit">>]_vars

(***************************************************************************)
(* ProductionController: what a scheduled resume resumes                   *)
(***************************************************************************)
\* the state the pause in force was called in
PausedFrom == pauses[Len(pauses)]

\* C37: the state becomes live only by a successful enable_live_trading
\* call or by the scheduled resume of a pause that was started while live
LiveOnlyByEnableOrResumeOfLivePause ==
    [][(state' = "live" /\ state # "live")
         => \/ IsCall("enable_live_trading") /\ last_call'.ok
            \/ /\ resume_timers' < resume_timers
               /\ PausedFrom = "live"]_vars

\* C38: while the resume task of a later pause, called after the state had
\* left paused, still sleeps, the end of an earlier task's sleep neither
\* sets the state live nor publishes resume_trading
EarlierTimerLeavesLaterPause ==
    [][(resume_timers' < resume_timers /\ Len(pauses) > 1
          /\ PausedFrom # "paused")
         => state' # "live" /\ channel' = channel]_vars

(***************************************************************************)
(* Engine: the kill switch                                                 *)
(***************************************************************************)
\* the message being handled is a trading_enabled command with this field
IsSwitchCommand(enabled) ==
    /\ IsHandled
    /\ Head(channel).command = "trading_enabled"
    /\ Head(channel).enabled = enabled

\* C40: trading_enabled starts false; it becomes true only when a
\* trading_enabled command whose enabled field is true is handled, and a
\* trading_enabled command without the field turns it off
TradingEnabledOnlyByCommand ==
    /\ ~trading_enabled
    /\ [][/\ (trading_enabled' /\ ~trading_enabled) => IsSwitchCommand("true")
          /\ IsSwitchCommand("absent") => ~trading_enabled']_vars

\* trading is on by a command, with strategies registered and positions
\* reconciled, and a trading_enabled command without the field is next
SwitchOnAndBareCommandPending ==
    /\ trading_enabled
    /\ last_command = "trading_enabled"
    /\ strategies # {}
    /\ positions # NoPositions
    /\ channel = <<Msg("trading_enabled", "", "", "absent", "")>>

====
